---- MODULE Spec2Model ----
(***************************************************************************)
(* State-machine model of rsyslog's KSI-LS12 signing library               *)
(* (runtime/lib_ksils12.c): the per-block Merkle accumulator, the block    *)
(* lifecycle, the signer queue and the signer worker with its asynchronous *)
(* aggregation service.                                                    *)
(*                                                                         *)
(* Hash values are modelled as terms: an imprint is the record of the      *)
(* inputs that were fed to the hasher, so two imprints are equal exactly   *)
(* when the same bytes were hashed.  Files are modelled as the sequence of *)
(* TLV records appended to them.                                           *)
(***************************************************************************)
EXTENDS Integers, Sequences, FiniteSets, TLC

(***************************************************************************)
(* Bounds of the model.                                                    *)
(***************************************************************************)
\* number of sigblkAddRecordKSI calls in a run
MaxRecords == 4
\* number of rsksiCtxOpenFile calls in a run
MaxOpens == 2
\* number of injected failures (hasher, queue, aggregator API) in a run
MaxFaults == 1
\* number of server configurations delivered in a run
MaxConfigs == 2
\* largest value of the wall clock
MaxTime == 1
\* largest maxLevel / maxRequests value a server configuration reports
MaxCfgValue == 3
\* number of sigblkAddRecordKSI calls in a run with a block time limit
MaxTimedRecords == 2
\* number of sigblkAddRecordKSI calls in a run under fair scheduling
MaxLiveRecords == 2
\* the SIGN items whose writing is followed
MaxSign == 3
\* number of sigblkAddRecordKSI calls in a run with failing hasher calls and
\* a block time limit
MaxExpireRecords == 1
\* largest argument of sigblkCalcLevel called on its own
MaxLeaves == 130
\* the largest number of leaves of a block handed to sigblkFinishKSI on its own
MaxFoldLeaves == 7

(***************************************************************************)
(* Imprints (KSI_DataHash) as terms.                                       *)
(***************************************************************************)
NULL == [null |-> TRUE]

\* memset(lastLeaf, 0): the digest bytes of an imprint that is all zero
ZeroImprint == [zero |-> TRUE]

\* hash algorithm ids (the first byte of an imprint) and KSI_getHashLength
HashAlgs == {"KSI_HASHALG_SHA2_256", "KSI_HASHALG_SHA2_512", "KSI_HASHALG_SHA3_256"}

KSI_getHashLength(id) == IF id = "KSI_HASHALG_SHA2_512" THEN 64 ELSE 32

\* the record data the host may log
Records == {[bytes |-> "A"], [bytes |-> "B"]}

\* seedIVKSI: a fresh seed for every block (b counts the blocks seeded)
seedIVKSI(b) == [seed |-> b]

\* H(lastLeaf || IV)
sigblkCreateMask(lastLeaf, iv) == [last |-> lastLeaf, iv |-> iv]

\* H(rec)
sigblkCreateHash(rec) == [rec |-> rec]

\* a sigblkHashTwoNodes that hashes its right node first
sigblkHashTwoNodes_swapped(left, right, level) ==
    [l |-> right, r |-> left, lv |-> level]

\* H(left || right || level)
sigblkHashTwoNodes(left, right, level) == [l |-> left, r |-> right, lv |-> level]

\* tlvCreateMetadata: the encoded metadata TLV (record index, key, value)
tlvCreateMetadata(index, value) ==
    [key |-> "com.guardtime.blockCloseReason", idx |-> index, val |-> value]

(***************************************************************************)
(* TLV records written to the files.                                       *)
(***************************************************************************)
\* tlvWriteBlockHdrKSI
BlockHdrTLV(hashAlg, iv, lastLeafId, lastLeaf) ==
    [t |-> "0901", hashAlg |-> hashAlg, iv |-> iv, lastLeafId |-> lastLeafId,
     lastLeaf |-> lastLeaf]

\* tlvWriteHashKSI
HashTLV(tag, imprint) == [t |-> tag, imprint |-> imprint]

\* tlvWriteOctetString of the metadata bytes
MetaTLV(bytes) == [t |-> "0911", bytes |-> bytes]

\* tlvWriteKSISigLS12
SigTLV(count, der) == [t |-> "0904", count |-> count, sig |-> der]

\* tlvWriteNoSigLS12 (errorText "" stands for the NULL pointer: no error TLV).
\* With hash = NULL the imprint has length 0, the fwrite of 0 bytes reports
\* failure and the function returns before the error text.
NoSigTLV(count, hash, errorText) ==
    [t |-> "0904", count |-> count, nosig |-> hash,
     err |-> IF hash = [null |-> TRUE] THEN "" ELSE errorText]

(***************************************************************************)
(* TLV headers as octets.  flags, tlvtype and len are the arguments of     *)
(* tlvWriteHeader; the result is the sequence of octets written.           *)
(***************************************************************************)
\* the tag bits of the first octet
RSGT_TYPE_MASK == 31
\* the bit of the first octet that selects the 4-octet header
RSGT_FLAG_TLV16 == 128

RECURSIVE BitAnd(_, _)
BitAnd(a, b) ==
    IF a = 0 \/ b = 0 THEN 0
    ELSE (a % 2) * (b % 2) + 2 * BitAnd(a \div 2, b \div 2)

RECURSIVE BitOr(_, _)
BitOr(a, b) ==
    IF a = 0 THEN b
    ELSE IF b = 0 THEN a
    ELSE (IF a % 2 = 1 \/ b % 2 = 1 THEN 1 ELSE 0) + 2 * BitOr(a \div 2, b \div 2)

\* buf[0] = (flags & ~RSGT_FLAG_TLV16) | tlvtype; buf[1] = len & 0xff
\* (tlvtype is a uint8_t here)
tlvWriteHeader8(flags, tlvtype, len) ==
    << BitOr(flags - BitAnd(flags, RSGT_FLAG_TLV16), tlvtype % 256) % 256,
       BitAnd(len, 255) >>

\* typ = ((flags | RSGT_FLAG_TLV16) << 8) | tlvtype, a uint16_t
tlvWriteHeader16(flags, tlvtype, len) ==
    LET typ == BitOr(BitOr(flags, RSGT_FLAG_TLV16) * 256, tlvtype) % 65536
    IN  << typ \div 256, BitAnd(typ, 255), BitAnd(len \div 256, 255), BitAnd(len, 255) >>

tlvGetHeaderSize(tag, size) ==
    IF tag <= RSGT_TYPE_MASK /\ size <= 255 THEN 2
    ELSE IF (tag \div 256) <= RSGT_TYPE_MASK /\ size <= 65535 THEN 4
    ELSE 0

\* the call passes flags where tlvGetHeaderSize takes the size
tlvWriteHeader(flags, tlvtype, len) ==
    LET headersize == tlvGetHeaderSize(tlvtype, flags)
    IN  IF headersize = 2 THEN tlvWriteHeader8(flags, tlvtype, len)
        ELSE IF headersize = 4 THEN tlvWriteHeader16(flags, tlvtype, len)
        ELSE << >>

\* reading a header back by the file format: bit RSGT_FLAG_TLV16 of the first
\* octet selects the 4-octet form, RSGT_TYPE_MASK its tag bits
tlvReadHeader(buf) ==
    IF Len(buf) >= 1 /\ BitAnd(buf[1], RSGT_FLAG_TLV16) # 0
    THEN IF Len(buf) >= 4
         THEN [ok |-> TRUE, size |-> 4,
               tag |-> BitAnd(buf[1], RSGT_TYPE_MASK) * 256 + buf[2],
               len |-> buf[3] * 256 + buf[4]]
         ELSE [ok |-> FALSE]
    ELSE IF Len(buf) >= 2
    THEN [ok |-> TRUE, size |-> 2, tag |-> BitAnd(buf[1], RSGT_TYPE_MASK),
          len |-> buf[2]]
    ELSE [ok |-> FALSE]

(***************************************************************************)
(* sigblkCalcLevel                                                         *)
(***************************************************************************)
RECURSIVE CalcLevelLoop(_, _)
CalcLevelLoop(c, level) ==
    IF c > 1 THEN CalcLevelLoop(c \div 2, level + 1) ELSE level

\* a sigblkCalcLevel that does not round up
sigblkCalcLevel_floor(leaves) == CalcLevelLoop(leaves, 0)

\* for leaves below 2^31, where 1 << level and (int)leaves are exact
sigblkCalcLevel(leaves) ==
    LET level == CalcLevelLoop(leaves, 0)
    IN  IF 2 ^ level < leaves THEN level + 1 ELSE level

(***************************************************************************)
(* The file handle (struct ksifile_s).  roots is the sequence              *)
(* roots[0..nRoots-1] (TLA+ index j+1 is the code's slot j); the slots     *)
(* from nRoots on are NULL.                                                *)
(***************************************************************************)
\* 1 << (effectiveBlockLevelLimit - 1) with effectiveBlockLevelLimit = 0 is an
\* undefined shift: builds yield 0 (shift count saturates) or 1 << 31 (shift
\* count taken modulo 32), a count no block reaches, written 2^30 here to
\* stay within the model checker's integers
ShiftUB == {0, 2 ^ 30}

BlockSizeLimits(level) == IF level >= 1 THEN {2 ^ (level - 1)} ELSE ShiftUB

rsksifileConstruct(c, limit) ==
    [ open          |-> TRUE,
      disabled      |-> FALSE,
      bInBlk        |-> FALSE,
      IV            |-> NULL,
      hashAlg       |-> c.hashAlg,
      lastLeafId    |-> c.hashAlg,
      lastLeaf      |-> ZeroImprint,
      roots         |-> << >>,
      nRoots        |-> 0,
      nRecords      |-> 0,
      blockStarted  |-> 0,
      blockTimeLimit |-> c.blockTimeLimit,
      bKeepRecordHashes |-> c.bKeepRecordHashes,
      bKeepTreeHashes |-> c.bKeepTreeHashes,
      blockSizeLimit |-> limit ]

\* a handle that is not open (freed, or never constructed)
NoFile == [open |-> FALSE]

(***************************************************************************)
(* The state file: struct rsksistatefile (hdr, hashID, lenHash) followed   *)
(* by lenHash digest bytes.  NULL stands for a file that does not exist.   *)
(***************************************************************************)
\* ksiWwriteStateFile: hashID is the handle's algorithm, lenHash the digest
\* length of the algorithm named in lastLeaf[0]
ksiWwriteStateFile(k) ==
    [ hdr |-> "KSISTAT10", hashID |-> k.hashAlg,
      lenHash |-> KSI_getHashLength(k.lastLeafId), digest |-> k.lastLeaf ]

\* ksiReadStateFile: the file is taken if its header and length fit, and
\* lastLeaf[0] becomes the hashID of the file; else lastLeaf is zeroed
ksiReadStateFile(k, sf) ==
    IF sf # NULL /\ sf.hdr = "KSISTAT10" /\ KSI_getHashLength(sf.hashID) = sf.lenHash
    THEN [k EXCEPT !.lastLeafId = sf.hashID, !.lastLeaf = sf.digest]
    ELSE [k EXCEPT !.lastLeafId = k.hashAlg, !.lastLeaf = ZeroImprint]

(***************************************************************************)
(* sigblkAddLeaf.  fault is the ordinal of the hasher call of this         *)
(* invocation that fails (0: none; 1: the mask; 2: the leaf hash; 3: the   *)
(* level-1 node; 3+i: the i-th fold of the carry loop).  The result is the *)
(* new handle, the TLVs appended to the block file, the return value and   *)
(* the tree nodes the call has produced, in order.                         *)
(***************************************************************************)
\* tree-hash TLVs for the nodes above level 1 only
TreeTLVs_interim(nodes, keepTree) ==
    IF keepTree
    THEN [ i \in 1..Len(SelectSeq(nodes, LAMBDA n : n.lv > 1)) |->
             HashTLV("0903", SelectSeq(nodes, LAMBDA n : n.lv > 1)[i]) ]
    ELSE << >>

\* the tree-hash TLVs written for a sequence of nodes
TreeTLVs(nodes, keepTree) ==
    IF keepTree THEN [i \in 1..Len(nodes) |-> HashTLV("0903", nodes[i])] ELSE << >>

\* the TLVs that reach the file when the io-th write of a call fails with
\* RSGTE_IO (io = 0: every write succeeds)
Written(out, io) ==
    IF io \in 1..Len(out)
    THEN SubSeq(out, 1, io - 1) \o SubSeq(out, io + 1, Len(out))
    ELSE out

RECURSIVE CarryLoop(_, _, _, _, _, _)
CarryLoop(roots, j, treeNode, nodes, folds, fault) ==
    IF j >= Len(roots)
    THEN [roots |-> roots, treeNode |-> treeNode, nodes |-> nodes, r |-> "OK"]
    ELSE IF roots[j + 1] = NULL
    THEN [roots |-> [roots EXCEPT ![j + 1] = treeNode], treeNode |-> NULL,
          nodes |-> nodes, r |-> "OK"]
    ELSE IF fault = 3 + folds + 1
    THEN [roots |-> [roots EXCEPT ![j + 1] = NULL], treeNode |-> treeNode,
          nodes |-> nodes, r |-> "RSGTE_HASH_CREATE"]
    ELSE LET interim == sigblkHashTwoNodes(roots[j + 1], treeNode, j + 2)
         IN  CarryLoop([roots EXCEPT ![j + 1] = NULL], j + 1, interim,
                       Append(nodes, interim), folds + 1, fault)

sigblkAddLeaf(k, leafData, metadata, fault, io) ==
    LET mask     == sigblkCreateMask(k.lastLeaf, k.IV)
        leafHash == sigblkCreateHash(leafData)
        hdr      == IF k.nRecords = 0 THEN << BlockHdrTLV(k.hashAlg, k.IV, k.lastLeafId, k.lastLeaf) >> ELSE << >>
        meta     == IF metadata THEN << MetaTLV(leafData) >> ELSE << >>
        rec      == IF k.bKeepRecordHashes THEN << HashTLV("0902", leafHash) >> ELSE << >>
        treeNode == IF ~metadata THEN sigblkHashTwoNodes(mask, leafHash, 1)
                                 ELSE sigblkHashTwoNodes(leafHash, mask, 1)
        \* from the memcpy into lastLeaf on: c is what the carry loop yields
        Carried(out1, node, c) ==
            LET out2 == out1 \o TreeTLVs(c.nodes, k.bKeepTreeHashes)
                top  == IF c.treeNode # NULL THEN Append(c.roots, c.treeNode)
                                             ELSE c.roots
            IN  IF c.r # "OK"
                THEN [k |-> [k EXCEPT !.lastLeaf = node, !.lastLeafId = k.hashAlg,
                                      !.roots = c.roots],
                      out |-> out2, r |-> c.r, nodes |-> c.nodes]
                ELSE [k |-> [k EXCEPT !.lastLeaf = node, !.lastLeafId = k.hashAlg,
                                      !.roots = top,
                                      !.nRoots = Len(top), !.nRecords = @ + 1],
                      out |-> out2, r |-> "OK", nodes |-> c.nodes]
        \* the results of the tlvWrite calls are not looked at
        Unchecked(a) == [a EXCEPT !.out = Written(@, io)]
    IN  IF k.disabled THEN [k |-> k, out |-> << >>, r |-> "OK", nodes |-> << >>]
        ELSE IF fault \in {1, 2}
        THEN [k |-> k, out |-> << >>, r |-> "RSGTE_HASH_CREATE", nodes |-> << >>]
        ELSE IF fault = 3
        THEN Unchecked([k |-> k, out |-> hdr \o meta \o rec,
                        r |-> "RSGTE_HASH_CREATE", nodes |-> << >>])
        ELSE Unchecked(Carried(hdr \o meta \o rec, treeNode,
                               CarryLoop(k.roots, 0, treeNode, << treeNode >>, 0, fault)))

\* sigblkAddMetadata: the return values of both calls are dropped (inner is
\* what sigblkAddLeaf returned)
sigblkAddMetadata(k, value, fault, io) ==
    LET Dropped(a) == [k |-> a.k, out |-> a.out, r |-> "OK", nodes |-> a.nodes,
                       inner |-> a.r]
    IN  Dropped(sigblkAddLeaf(k, tlvCreateMetadata(k.nRecords, value), TRUE, fault, io))

(***************************************************************************)
(* sigblkSign (synchronous mode): the TLV appended to the block file.      *)
(***************************************************************************)
\* what KSI_Signature_serialize yields for a signature over (hash, level)
Signature(hash, level) == [over |-> hash, level |-> level]

sigblkSign(k, hash, level, signOk) ==
    IF signOk THEN SigTLV(k.nRecords, Signature(hash, level))
              ELSE NoSigTLV(k.nRecords, hash, "KSI error")

(***************************************************************************)
(* sigblkFinishKSI.  fault is the ordinal of the fold whose hash fails     *)
(* (0: none).  After a failed fold the code writes the tree hash of root,  *)
(* which it has just freed: uaf is what that read yields.  The result      *)
(* holds the new handle, the TLVs appended to the block file, the return   *)
(* value and the arguments of the SIGN item to enqueue (req), if any.      *)
(***************************************************************************)
\* outcomes of reading the imprint of a freed KSI_DataHash
FreedReads == {"stale", "garbage"}

RECURSIVE FoldLoop(_, _, _, _, _, _)
FoldLoop(roots, j, root, nodes, folds, fault) ==
    IF j >= Len(roots)
    THEN [roots |-> roots, root |-> root, nodes |-> nodes, ret |-> "OK"]
    ELSE IF root = NULL
    THEN FoldLoop([roots EXCEPT ![j + 1] = NULL], j + 1, roots[j + 1], nodes,
                  folds, fault)
    ELSE IF roots[j + 1] = NULL
    THEN FoldLoop(roots, j + 1, root, nodes, folds, fault)
    ELSE IF fault = folds + 1
    THEN [roots |-> [roots EXCEPT ![j + 1] = NULL], root |-> root, nodes |-> nodes,
          ret |-> "RSGTE_HASH_CREATE"]
    ELSE LET folded == sigblkHashTwoNodes(roots[j + 1], root, j + 2)
         IN  FoldLoop([roots EXCEPT ![j + 1] = NULL], j + 1, folded,
                      Append(nodes, folded), folds + 1, fault)

NoRequest == [has |-> FALSE]

\* a sigblkFinishKSI without the test of nRecords == 0
sigblkFinishKSI_untested(k, syncMode, fault, uaf, signOk) ==
    LET level == sigblkCalcLevel(2 * k.nRecords)
        f == FoldLoop(k.roots, 0, NULL, << >>, 0, fault)
        kf == [k EXCEPT !.roots = f.roots, !.IV = NULL, !.bInBlk = FALSE]
    IN  IF syncMode = "LOGSIG_ASYNCHRONOUS"
        THEN [k |-> kf, out |-> << NoSigTLV(k.nRecords, f.root, "") >>, ret |-> f.ret,
              req |-> [has |-> TRUE, arg |-> f.root, intarg1 |-> k.nRecords,
                       intarg2 |-> level],
              nodes |-> f.nodes]
        ELSE [k |-> kf, out |-> << sigblkSign(k, f.root, level, signOk) >>,
              ret |-> f.ret, req |-> NoRequest, nodes |-> f.nodes]

sigblkFinishKSI(k, syncMode, fault, uaf, signOk) ==
    LET done(kk) == [kk EXCEPT !.IV = NULL, !.bInBlk = FALSE]
        level == sigblkCalcLevel(2 * k.nRecords)
        \* from the end of the fold loop on: f is what the loop yields
        Folded(f) ==
            LET kf   == done([k EXCEPT !.roots = f.roots])
                tree == TreeTLVs(f.nodes, k.bKeepTreeHashes)
                \* the tree hash written from the root freed just before
                freed == TreeTLVs(<< IF uaf = "stale" THEN f.root
                                                      ELSE [garbage |-> TRUE] >>,
                                  k.bKeepTreeHashes)
            IN  IF f.ret # "OK"
                THEN [k |-> kf, out |-> tree \o freed, ret |-> f.ret, req |-> NoRequest,
                      nodes |-> f.nodes]
                ELSE IF syncMode = "LOGSIG_ASYNCHRONOUS"
                THEN [k |-> kf,
                      out |-> Append(tree, NoSigTLV(k.nRecords, f.root, "")),
                      ret |-> "OK",
                      req |-> [has |-> TRUE, arg |-> f.root,
                               intarg1 |-> k.nRecords, intarg2 |-> level],
                      nodes |-> f.nodes]
                ELSE [k |-> kf,
                      out |-> Append(tree, sigblkSign(k, f.root, level, signOk)),
                      ret |-> "OK", req |-> NoRequest, nodes |-> f.nodes]
    IN  IF k.nRecords = 0
        THEN [k |-> done(k), out |-> << >>, ret |-> "OK", req |-> NoRequest,
              nodes |-> << >>]
        ELSE Folded(FoldLoop(k.roots, 0, NULL, << >>, 0, fault))

(***************************************************************************)
(* sigblkInitKSI, in the two halves a concurrent thread can observe:       *)
(* the writes up to bInBlk = 1, then blockStarted and blockSizeLimit.      *)
(***************************************************************************)
\* a block start that also forgets the last leaf of the block before
sigblkInitKSI_head_unchained(k, seed) ==
    [k EXCEPT !.IV = seedIVKSI(seed), !.roots = << >>, !.nRoots = 0,
              !.nRecords = 0, !.bInBlk = TRUE, !.lastLeaf = ZeroImprint]

sigblkInitKSI_head(k, seed) ==
    [k EXCEPT !.IV = seedIVKSI(seed), !.roots = << >>, !.nRoots = 0,
              !.nRecords = 0, !.bInBlk = TRUE]

sigblkInitKSI_tail(k, time, limit) ==
    [k EXCEPT !.blockStarted = time, !.blockSizeLimit = limit]

sigblkInitKSI(k, seed, time, limit) ==
    sigblkInitKSI_tail(sigblkInitKSI_head(k, seed), time, limit)

(***************************************************************************)
(* handle_ksi_config.  A configuration is [maxRequests, maxLevel]; the     *)
(* value -1 stands for a field the server did not send (KSI_Integer NULL). *)
(***************************************************************************)
MIN(a, b) == IF a < b THEN a ELSE b

\* a handle_ksi_config that takes the reported maxLevel as it is, without the
\* configured limit as its cap
handle_ksi_config_uncapped(c, config) ==
    LET c1 == IF config.maxRequests # -1
              THEN [c EXCEPT !.max_requests = config.maxRequests] ELSE c
    IN  IF config.maxLevel = -1 THEN c1
        ELSE IF c1.effectiveBlockLevelLimit # config.maxLevel
        THEN [c1 EXCEPT !.effectiveBlockLevelLimit = config.maxLevel]
        ELSE IF config.maxLevel < 2
        THEN [c1 EXCEPT !.disabled = TRUE]
        ELSE c1

handle_ksi_config(c, config) ==
    LET c1 == IF config.maxRequests # -1
              THEN [c EXCEPT !.max_requests = config.maxRequests] ELSE c
        newLevel == MIN(config.maxLevel, c.blockLevelLimit)
    IN  IF config.maxLevel = -1 THEN c1
        ELSE IF c1.effectiveBlockLevelLimit # newLevel
        THEN [c1 EXCEPT !.effectiveBlockLevelLimit = newLevel]
        ELSE IF config.maxLevel < 2
        THEN [c1 EXCEPT !.disabled = TRUE]
        ELSE c1

\* the fields of the context handle_ksi_config assigns for this configuration
ConfigWrites(c, config) ==
    (IF config.maxRequests # -1 THEN {"max_requests"} ELSE {})
    \cup (IF config.maxLevel # -1
             /\ c.effectiveBlockLevelLimit # MIN(config.maxLevel, c.blockLevelLimit)
          THEN {"effectiveBlockLevelLimit"} ELSE {})
    \cup (IF config.maxLevel # -1
             /\ c.effectiveBlockLevelLimit = MIN(config.maxLevel, c.blockLevelLimit)
             /\ config.maxLevel < 2
          THEN {"disabled"} ELSE {})

\* the configurations a server may report
Configs == [maxRequests : {-1, 1}, maxLevel : -1..MaxCfgValue]

(***************************************************************************)
(* Queue items (struct QueueItem_st) and add_queue_item.  id stands for    *)
(* the item's address, which the async service carries as request context. *)
(***************************************************************************)
QueueItem(id, type, arg, intarg1, intarg2) ==
    [ id |-> id, type |-> type, status |-> "QITEM_WAITING", arg |-> arg,
      intarg1 |-> intarg1, intarg2 |-> intarg2,
      respHandle |-> NULL, ksi_status |-> "KSI_UNKNOWN_ERROR" ]

\* ok: malloc and ProtectedQueue_addItem both succeed
add_queue_item(c, q, id, type, arg, intarg1, intarg2, ok) ==
    IF ok
    THEN [ctx |-> c, queue |-> Append(q, QueueItem(id, type, arg, intarg1, intarg2)),
          ret |-> TRUE]
    ELSE [ctx |-> [c EXCEPT !.disabled = TRUE], queue |-> q, ret |-> FALSE]

(***************************************************************************)
(* save_response: the TLV written to the signature file for a popped item. *)
(* sigOk: KSI_AsyncHandle_getSignature and KSI_Signature_serialize succeed.*)
(***************************************************************************)
\* the library's text for a status code
KSI_getErrorString(status) ==
    CASE status = "KSI_OK" -> "No errors."
      [] status = "KSI_SERVICE_ERROR" -> "Pattern for errors with client requests."
      [] status = "KSI_ASYNC_REQUEST_CACHE_FULL" -> "Async service request cache is full."
      [] status = "KSI_INVALID_FORMAT" -> "Invalid format."
      [] OTHER -> "Unknown status code."

\* a save_response that leaves out the error text of a failed request
save_response_silent(item, sigOk) ==
    IF item.respHandle # NULL /\ item.ksi_status = "KSI_OK" /\ sigOk
    THEN SigTLV(item.intarg1, item.respHandle.sig)
    ELSE NoSigTLV(item.intarg1, item.arg, "")

save_response(item, sigOk) ==
    IF item.respHandle # NULL /\ item.ksi_status = "KSI_OK"
    THEN IF sigOk THEN SigTLV(item.intarg1, item.respHandle.sig)
                  ELSE NoSigTLV(item.intarg1, item.arg, KSI_getErrorString("KSI_INVALID_FORMAT"))
    ELSE NoSigTLV(item.intarg1, item.arg, KSI_getErrorString(item.ksi_status))

(***************************************************************************)
(* Bookkeeping of the tree of one log, kept beside the program's state:    *)
(* k, the successful sigblkAddLeaf calls of the current block; ok, whether *)
(* the latest sigblkAddLeaf call returned 0; occ, the occupied slots of    *)
(* roots[] on its return; leaf and final, the latest level-1 node and the  *)
(* latest tree node of any level produced for this log; hdr, the latest    *)
(* block header written, with leaf and final as they were then; add, the   *)
(* latest sigblkAddRecordKSI call: the ordinal of its failing hasher call, *)
(* its result, the handle before and after, and what its sigblkAddLeaf     *)
(* appended and the nodes it produced.                                     *)
(***************************************************************************)
NoTree == [ k |-> 0, ok |-> FALSE, occ |-> {}, leaf |-> NULL, final |-> NULL,
            hdr |-> [has |-> FALSE], fin |-> [has |-> FALSE],
            closed |-> [has |-> FALSE], add |-> [has |-> FALSE] ]

Last(s) == s[Len(s)]

TrackLeaf(t, a, r) ==
    LET wrote == a.out # << >> /\ a.out[1].t = "0901"
    IN  [ k     |-> IF r = "OK" THEN t.k + 1 ELSE t.k,
          ok    |-> r = "OK",
          occ   |-> { j \in 0..(Len(a.k.roots) - 1) : a.k.roots[j + 1] # NULL },
          leaf  |-> IF a.nodes # << >> THEN a.nodes[1] ELSE t.leaf,
          final |-> IF a.nodes # << >> THEN Last(a.nodes) ELSE t.final,
          hdr   |-> IF wrote THEN [ has |-> TRUE, lastLeaf |-> a.out[1].lastLeaf,
                                    leaf |-> t.leaf, final |-> t.final ]
                             ELSE t.hdr,
          fin   |-> t.fin,
          closed |-> t.closed,
          add   |-> t.add ]

\* k is the handle sigblkFinishKSI was called on, fin what the call yielded
TrackFinish(t, k, fin) ==
    [t EXCEPT !.final = IF fin.nodes # << >> THEN Last(fin.nodes) ELSE @,
              !.fin = [ has |-> TRUE, nRecords |-> k.nRecords,
                        limit |-> k.blockSizeLimit, out |-> fin.out,
                        called |-> fin.called, ret |-> fin.ret,
                        signOk |-> fin.signOk, enq |-> fin.enq,
                        item |-> IF fin.enq THEN Last(fin.queue) ELSE NULL,
                        changed |-> { fld \in DOMAIN k : fin.k[fld] # k[fld] } ]]

TrackInit(t) == [t EXCEPT !.k = 0, !.ok = FALSE, !.occ = {}]


(***************************************************************************)
(* State.                                                                  *)
(***************************************************************************)
VARIABLES
    ctx,          \* struct rsksictx_s: the fields the library mutates or reads
    ksi,          \* per log: the open struct ksifile_s, or NoFile
    blockFile,    \* per log: the TLVs in the block-data file
    sigFile,      \* per log: the TLVs in the signature file
    stateFile,    \* per log: the contents of the state file, or NULL
    signer_queue, \* ctx->signer_queue: the sequence of queue items
    as,           \* the worker's KSI_AsyncService: requests in flight, handles ready
    worker,       \* signer_thread: its position, its ksiFile and saved branch
    caller,       \* the host thread: its position in the public API
    module_lock,  \* ctx->module_lock: "free" or the thread that holds it
    queue_mutex,  \* the mutex of ctx->signer_queue: "free" or the thread in one
                  \* of the queue's operations
    now,          \* time(NULL)
    g             \* bookkeeping of the run: its environment (logs, recs, kinds),
                  \* counters, the SIGN items enqueued (enq), the context fields
                  \* written without the lock (unlocked), whether add_queue_item
                  \* has failed (qfailed), the items the aggregator failed or
                  \* refused (failed), the SIGN items the worker popped and
                  \* freed unwritten (dropped), the SIGN items left WAITING
                  \* behind a refused request (held), the SIGN items whose
                  \* root the save loop has freed, with the holder of the
                  \* lock at the time (freed), the last maxLevel handled
                  \* (lastLevel), the last call of a pure function (call) and
                  \* the bookkeeping of each log's tree (tree)

vars == << ctx, ksi, blockFile, sigFile, stateFile, signer_queue, as, worker,
           caller, module_lock, queue_mutex, now, g >>

\* the log files a run may use
AllLogs == {1, 2}

Magic(header) == [t |-> "magic", header |-> header]

\* 1 << 8, the initial ctx->max_requests
InitialMaxRequests == 256

rsksiCtxNew(syncMode, levelLimit, timeLimit, keepRec, keepTree) ==
    [ disabled |-> FALSE,
      hashAlg |-> "KSI_HASHALG_SHA2_256",
      syncMode |-> syncMode,
      blockLevelLimit |-> levelLimit,
      effectiveBlockLevelLimit |-> levelLimit,
      blockTimeLimit |-> timeLimit,
      bKeepRecordHashes |-> keepRec,
      bKeepTreeHashes |-> keepTree,
      max_requests |-> InitialMaxRequests,
      thread_started |-> FALSE,
      ksi |-> 0 ]

\* no call of a helper function observed yet
NoCall == [fn |-> "none"]

\* the kinds of failure the environment of a run may produce
FaultKinds == {"hash", "sign", "queue", "refuse", "api", "serialize", "service", "endpoint",
               "io"}

\* the state after rsksiCtxNew and the host's configuration of the context;
\* logs, recs and kinds describe the run's environment: the log files the
\* host writes, the record payloads it logs, the failures that can occur;
\* states are the state files an earlier process may have left on disk
InitFrom(modes, levels, timeLimits, keepTrees, logs, recs, kinds, states) ==
    /\ ctx \in { rsksiCtxNew(m, l, t, TRUE, kt) :
                   m \in modes, l \in levels, t \in timeLimits, kt \in keepTrees }
    /\ ksi = [h \in AllLogs |-> NoFile]
    /\ blockFile = [h \in AllLogs |-> << >>]
    /\ sigFile = [h \in AllLogs |-> << >>]
    /\ stateFile \in [AllLogs -> states]
    /\ signer_queue = << >>
    /\ as = [pending |-> {}, ready |-> {}]
    /\ worker = [pc |-> "none", ksiFile |-> NULL, back |-> "wait"]
    /\ caller = [pc |-> "idle", h |-> 0]
    /\ module_lock = "free"
    /\ queue_mutex = "free"
    /\ now = 0
    /\ g = [ logs |-> logs, recs |-> recs, kinds |-> kinds,
             nextId |-> 1, seeds |-> 0, records |-> 0, opens |-> 0,
             faults |-> 0, configs |-> 0, enq |-> << >>, unlocked |-> {},
             qfailed |-> FALSE, failed |-> {}, lastLevel |-> -1,
             tree |-> [h \in AllLogs |-> NoTree], call |-> NoCall,
             dropped |-> {}, held |-> {}, freed |-> << >> ]

\* the same with no state file on disk
InitWith(modes, levels, timeLimits, keepTrees, logs, recs, kinds) ==
    InitFrom(modes, levels, timeLimits, keepTrees, logs, recs, kinds, {NULL})

(***************************************************************************)
(* Injected failures of one call: the ordinal of the failing hasher call   *)
(* in sigblkAddLeaf (leaf), of the failing fold in sigblkFinishKSI (fold,  *)
(* with what the read of the freed root yields), of the failing            *)
(* add_queue_item call (qfail), the synchronous signing result (signOk),   *)
(* the ordinal of the request KSI_AsyncService_addRequest refuses or a KSI *)
(* call fails for (send, sendAs), and the ordinal of the flushed response  *)
(* whose signature cannot be serialized (ser), and the ordinal of the      *)
(* failing write to the block file in sigblkAddLeaf (io).                  *)
(***************************************************************************)
\* the largest ordinal of a failing hasher call in one sigblkAddLeaf
MaxLeafFault == 5
\* the largest ordinal of a failing fold in one sigblkFinishKSI
MaxFoldFault == 2
\* the largest ordinal of a failing request or response in one
\* process_requests_async
MaxSendFault == 2
\* the largest ordinal of a failing write to the block file in one
\* sigblkAddLeaf
MaxWriteFault == 4

NoFault == [ leaf |-> 0, fold |-> 0, uaf |-> "stale", signOk |-> TRUE, qfail |-> 0,
             send |-> 0, sendAs |-> "refused", ser |-> 0, io |-> 0 ]

Faulty(kind) ==
    CASE kind = "hash" ->
           { [NoFault EXCEPT !.leaf = i] : i \in 1..MaxLeafFault }
           \cup { [NoFault EXCEPT !.fold = i, !.uaf = u] :
                    i \in 1..MaxFoldFault, u \in FreedReads }
      [] kind = "sign" -> { [NoFault EXCEPT !.signOk = FALSE] }
      [] kind = "queue" -> { [NoFault EXCEPT !.qfail = i] : i \in 1..2 }
      [] kind = "refuse" ->
           { [NoFault EXCEPT !.send = i, !.sendAs = "refused"] : i \in 1..MaxSendFault }
      [] kind = "api" ->
           { [NoFault EXCEPT !.send = i, !.sendAs = "failed"] : i \in 1..MaxSendFault }
      [] kind = "serialize" -> { [NoFault EXCEPT !.ser = i] : i \in 1..MaxSendFault }
      [] kind = "io" -> { [NoFault EXCEPT !.io = i] : i \in 1..MaxWriteFault }
      [] OTHER -> {}

Faults ==
    IF g.faults < MaxFaults THEN {NoFault} \cup UNION { Faulty(kd) : kd \in g.kinds }
                            ELSE {NoFault}

Spend(f) == IF f = NoFault THEN 0 ELSE 1

(***************************************************************************)
(* Block finish with its enqueue, as the three callers of sigblkFinishKSI  *)
(* perform it.  qn is the ordinal of this add_queue_item call in the API   *)
(* call that runs it.                                                      *)
(***************************************************************************)
FinishAndEnqueue(c, q, k, id, f, qn) ==
    LET Enqueued(fin, e) ==
            [ k |-> fin.k, out |-> fin.out, ret |-> fin.ret, ctx |-> e.ctx,
              queue |-> e.queue, called |-> fin.req.has, enq |-> fin.req.has /\ e.ret,
              nodes |-> fin.nodes, signOk |-> f.signOk ]
        Finished(fin) ==
            Enqueued(fin,
                     IF fin.req.has
                     THEN add_queue_item(c, q, id, "QITEM_SIGNATURE_REQUEST", fin.req.arg,
                                         fin.req.intarg1, fin.req.intarg2, f.qfail # qn)
                     ELSE [ctx |-> c, queue |-> q, ret |-> FALSE])
    IN  Finished(sigblkFinishKSI(k, c.syncMode, f.fold, f.uaf, f.signOk))

(***************************************************************************)
(* The public API, called by the host thread.  Every entry point that      *)
(* takes ctx->module_lock runs as one step, from lock to unlock.           *)
(***************************************************************************)
NoConfig == [maxRequests |-> -1, maxLevel |-> -1]

\* the process has not been ended by a fault
Alive == worker.pc # "crashed"

\* ksiCreateFile: the magic header goes into a file of size 0
ksiCreateFile(content, header) ==
    IF content = << >> THEN << Magic(header) >> ELSE content

\* ksiCreateFile for a stream that stays open behind its caller: the FILE it
\* returns on file h, with what its buffer of KSI_BUF_SIZE octets holds (the
\* header, if fstat has reported size 0); disk is the file's content on disk
ksiCreateFile_stream(h, disk, header) ==
    [file |-> h, buf |-> IF disk = << >> THEN << Magic(header) >> ELSE << >>]

\* fwrite: the TLVs go into the buffer of the stream
fwrite(stream, out) ==
    IF stream = NULL THEN stream ELSE [stream EXCEPT !.buf = @ \o out]

\* fclose: the buffer of the stream goes to the file
fclose(files, stream) ==
    IF stream = NULL THEN files
    ELSE [files EXCEPT ![stream.file] = @ \o stream.buf]

\* rsksiCtxOpenFile(ctx, logfn) with ksiOpenSigFile; config is what
\* KSI_receiveAggregatorConfig reports in synchronous mode
rsksiCtxOpenFile(h, f, config, limit) ==
    /\ caller.pc = "idle"
    /\ Alive
    /\ h \in g.logs
    /\ ~ksi[h].open
    /\ g.opens < MaxOpens
    /\ ~ctx.disabled
    /\ module_lock = "free"
    /\ f \in Faults
    /\ limit \in BlockSizeLimits(ctx.effectiveBlockLevelLimit)
    /\ config \in IF ctx.syncMode = "LOGSIG_SYNCHRONOUS" /\ g.configs < MaxConfigs
                   THEN Configs ELSE {NoConfig}
    /\ LET async == ctx.syncMode = "LOGSIG_ASYNCHRONOUS"
           k0 == rsksifileConstruct(ctx, limit)
           k1 == ksiReadStateFile(k0, stateFile[h])
           e  == IF async
                 THEN add_queue_item(ctx, signer_queue, g.nextId, "QITEM_NEW_FILE",
                                     ksiCreateFile_stream(h, sigFile[h], "LOG12SIG"),
                                     now + k0.blockTimeLimit, 0, f.qfail # 1)
                 ELSE [ctx |-> ctx, queue |-> signer_queue, ret |-> TRUE]
           c1 == IF async THEN e.ctx ELSE handle_ksi_config(e.ctx, config)
       IN  /\ f \in {NoFault, [NoFault EXCEPT !.qfail = 1]}
           /\ f.qfail = 1 => async
           /\ ctx' = [c1 EXCEPT !.thread_started = TRUE, !.ksi = h]
           /\ signer_queue' = e.queue
           /\ ksi' = [ksi EXCEPT ![h] = k1]
           /\ blockFile' = [blockFile EXCEPT ![h] =
                  ksiCreateFile(@, IF async THEN "LOG12BLK" ELSE "LOGSIG12")]
           /\ worker' = IF ctx.thread_started THEN worker
                                              ELSE [worker EXCEPT !.pc = "start"]
           /\ g' = [g EXCEPT !.opens = @ + 1, !.faults = @ + Spend(f),
                             !.nextId = @ + 1,
                             !.qfailed = @ \/ ~e.ret,
                             !.lastLevel = IF config.maxLevel # -1 THEN config.maxLevel
                                                                   ELSE @,
                             !.configs = @ + (IF config = NoConfig THEN 0 ELSE 1)]
    /\ UNCHANGED << sigFile, stateFile, as, caller, module_lock, queue_mutex, now >>

\* sigblkInitKSI(ksi) called by the host: it takes no lock, so its writes
\* are visible to the worker one group at a time
sigblkInitKSI_begin(h) ==
    /\ caller.pc = "idle"
    /\ Alive
    /\ ksi[h].open
    /\ ~ksi[h].bInBlk
    /\ ksi' = [ksi EXCEPT ![h] = sigblkInitKSI_head(@, g.seeds + 1)]
    /\ caller' = [pc |-> "sigblkInitKSI", h |-> h]
    /\ g' = [g EXCEPT !.seeds = @ + 1, !.tree[h] = TrackInit(@)]
    /\ UNCHANGED << ctx, blockFile, sigFile, stateFile, signer_queue, as, worker,
                    module_lock, queue_mutex, now >>

sigblkInitKSI_end(limit) ==
    /\ caller.pc = "sigblkInitKSI"
    /\ Alive
    /\ limit \in BlockSizeLimits(ctx.effectiveBlockLevelLimit)
    /\ ksi' = [ksi EXCEPT ![caller.h] = sigblkInitKSI_tail(@, now, limit)]
    /\ caller' = [pc |-> "idle", h |-> 0]
    /\ UNCHANGED << ctx, blockFile, sigFile, stateFile, signer_queue, as, worker,
                    module_lock, queue_mutex, now, g >>

\* a sigblkAddRecordKSI that drops the result of sigblkAddLeaf, as
\* sigblkAddMetadata does
sigblkAddRecordKSI_ret_dropped(r) == "OK"

\* the value sigblkAddRecordKSI returns: the result r of its sigblkAddLeaf
sigblkAddRecordKSI_ret(r) == r

\* what one sigblkAddRecordKSI(ksi, rec, len) call yields under the failures f
AddRecordResult(h, rec, f, limit) ==
    LET Full(a) == a.r = "OK" /\ a.k.nRecords = a.k.blockSizeLimit
        Closed(a, t1, fin) ==
            [ k     |-> sigblkInitKSI(fin.k, g.seeds + 1, now, limit),
              ret   |-> sigblkAddRecordKSI_ret(a.r),
              leaf  |-> a,
              out   |-> a.out \o fin.out,
              ctx   |-> fin.ctx,
              queue |-> fin.queue,
              full  |-> TRUE,
              enq   |-> fin.enq,
              qfail |-> fin.called /\ ~fin.enq,
              tree  |-> TrackInit(TrackFinish(t1, a.k, fin)) ]
        Added(a, t1) ==
            IF Full(a)
            THEN Closed(a, t1, FinishAndEnqueue(ctx, signer_queue, a.k, g.nextId, f, 1))
            ELSE [ k |-> a.k, out |-> a.out, ctx |-> ctx, queue |-> signer_queue,
                   ret |-> sigblkAddRecordKSI_ret(a.r), leaf |-> a,
                   full |-> FALSE, enq |-> FALSE, qfail |-> FALSE, tree |-> t1 ]
        Leaf(a) == Added(a, TrackLeaf(g.tree[h], a, a.r))
    IN  Leaf(sigblkAddLeaf(ksi[h], rec, FALSE, f.leaf, f.io))

\* sigblkAddRecordKSI(ksi, rec, len)
sigblkAddRecordKSI(h, rec, f, limit) ==
    /\ caller.pc = "idle"
    /\ Alive
    /\ ksi[h].open
    /\ ksi[h].bInBlk
    /\ ~ksi[h].disabled
    /\ g.records < MaxRecords
    /\ rec \in g.recs
    /\ module_lock = "free"
    /\ f \in Faults
    /\ limit \in BlockSizeLimits(ctx.effectiveBlockLevelLimit)
    /\ \E R \in {AddRecordResult(h, rec, f, limit)} :
           /\ f # NoFault => R # AddRecordResult(h, rec, NoFault, limit)
           /\ ksi' = [ksi EXCEPT ![h] = R.k]
           /\ blockFile' = [blockFile EXCEPT ![h] = @ \o R.out]
           /\ ctx' = R.ctx
           /\ signer_queue' = R.queue
           /\ g' = [g EXCEPT !.records = @ + 1, !.faults = @ + Spend(f),
                             !.seeds = @ + (IF R.full THEN 1 ELSE 0),
                             !.nextId = @ + (IF R.enq THEN 1 ELSE 0),
                             !.enq = IF R.enq THEN Append(@, Last(R.queue)) ELSE @,
                             !.qfailed = @ \/ R.qfail,
                             !.tree[h] = [R.tree EXCEPT !.add =
                                 [ has |-> TRUE, fault |-> f.leaf, io |-> f.io,
                                   ret |-> R.ret,
                                   before |-> ksi[h], after |-> R.k,
                                   out |-> R.leaf.out, nodes |-> R.leaf.nodes,
                                   disabled |-> (R.ctx.disabled /\ ~ctx.disabled)
                                                   \/ R.k.disabled ]]]
    /\ UNCHANGED << sigFile, stateFile, as, worker, caller, module_lock, queue_mutex, now >>

\* what one rsksifileDestruct(ksi) call yields under the failures f
DestructResult(h, f) ==
    LET k == ksi[h]
        \* ksiCloseSigFile: the CLOSE_FILE item (asynchronous mode) and the state file
        Closed(out, k2, c2, q2, enq, id2, qfail, tree, cl) ==
            [ out   |-> out,
              state |-> IF k.disabled THEN stateFile[h] ELSE ksiWwriteStateFile(k2),
              ctx   |-> [cl.ctx EXCEPT !.ksi = 0],
              queue |-> cl.queue,
              enq   |-> enq,
              nextId |-> id2 + 1,
              qfail |-> qfail \/ ~cl.ret,
              tree  |-> IF k.disabled THEN tree
                        ELSE [tree EXCEPT !.closed = [has |-> TRUE, id |-> k2.lastLeafId,
                                                      digest |-> k2.lastLeaf]] ]
        Close(out, k2, c2, q2, enq, qn, qfail, tree) ==
            Closed(out, k2, c2, q2, enq, g.nextId + Len(enq), qfail, tree,
                   IF ~k.disabled /\ ctx.syncMode = "LOGSIG_ASYNCHRONOUS"
                   THEN add_queue_item(c2, q2, g.nextId + Len(enq), "QITEM_CLOSE_FILE",
                                       NULL, 0, 0, f.qfail # qn)
                   ELSE [ctx |-> c2, queue |-> q2, ret |-> TRUE])
        Finished(m, fin) ==
            Close(m.out \o fin.out, fin.k, fin.ctx, fin.queue,
                  IF fin.enq THEN << Last(fin.queue) >> ELSE << >>,
                  IF fin.called THEN 2 ELSE 1,
                  fin.called /\ ~fin.enq,
                  TrackFinish(TrackLeaf(g.tree[h], m, m.inner), m.k, fin))
        Metadata(m) ==
            Finished(m, FinishAndEnqueue(ctx, signer_queue, m.k, g.nextId, f, 1))
    IN  IF ~k.disabled /\ k.bInBlk
        THEN Metadata(sigblkAddMetadata(k, "Block closed due to file closure.", f.leaf,
                                   f.io))
        ELSE Close(<< >>, k, ctx, signer_queue, << >>, 1, FALSE, g.tree[h])

\* rsksifileDestruct(ksi) with ksiCloseSigFile and ksiWwriteStateFile
rsksifileDestruct(h, f) ==
    /\ caller.pc = "idle"
    /\ Alive
    /\ ksi[h].open
    /\ module_lock = "free"
    /\ f \in Faults
    /\ \E R \in {DestructResult(h, f)} :
           /\ f # NoFault => R # DestructResult(h, NoFault)
           /\ ctx' = R.ctx
           /\ signer_queue' = R.queue
           /\ blockFile' = [blockFile EXCEPT ![h] = @ \o R.out]
           /\ stateFile' = [stateFile EXCEPT ![h] = R.state]
           /\ ksi' = [ksi EXCEPT ![h] = NoFile]
           /\ g' = [g EXCEPT !.faults = @ + Spend(f), !.nextId = R.nextId,
                             !.enq = @ \o R.enq,
                             !.qfailed = @ \/ R.qfail,
                             !.tree[h] = R.tree]
    /\ UNCHANGED << sigFile, as, worker, caller, module_lock, queue_mutex, now >>

\* rsksiCtxDel(ctx) up to pthread_join: the QUIT item is added without the lock
rsksiCtxDel(f) ==
    /\ caller.pc = "idle"
    /\ Alive
    /\ \A h \in AllLogs : ~ksi[h].open
    /\ f \in Faults \cap {NoFault, [NoFault EXCEPT !.qfail = 1]}
    /\ LET e == IF ctx.thread_started
                THEN add_queue_item(ctx, signer_queue, g.nextId, "QITEM_QUIT", NULL, 0, 0,
                                    f.qfail # 1)
                ELSE [ctx |-> ctx, queue |-> signer_queue, ret |-> TRUE]
       IN  /\ f.qfail = 1 => ctx.thread_started
           /\ ctx' = e.ctx
           /\ signer_queue' = e.queue
           /\ caller' = [pc |-> IF ctx.thread_started THEN "pthread_join" ELSE "deleted",
                         h |-> 0]
           /\ g' = [g EXCEPT !.faults = @ + Spend(f), !.nextId = @ + 1,
                             !.qfailed = @ \/ ~e.ret,
                             !.unlocked = IF e.ret THEN @ ELSE @ \cup {"disabled"}]
    /\ UNCHANGED << ksi, blockFile, sigFile, stateFile, as, worker, module_lock, queue_mutex, now >>

\* pthread_join returns once the worker has left signer_thread
rsksiCtxDel_join ==
    /\ caller.pc = "pthread_join"
    /\ worker.pc = "exited"
    /\ caller' = [caller EXCEPT !.pc = "deleted"]
    /\ UNCHANGED << ctx, ksi, blockFile, sigFile, stateFile, signer_queue, as, worker,
                    module_lock, queue_mutex, now, g >>

(***************************************************************************)
(* The signer worker (signer_thread).                                      *)
(***************************************************************************)
Running == worker.pc \notin {"none", "exited", "crashed"}

\* signer_thread up to its loop: with no endpoint accepted it disables the
\* context and leaves
signer_thread_start(endpoints) ==
    /\ worker.pc = "start"
    /\ endpoints \in IF g.faults < MaxFaults /\ "endpoint" \in g.kinds THEN {0, 1} ELSE {1}
    /\ IF endpoints = 0
       THEN /\ ctx' = [ctx EXCEPT !.disabled = TRUE, !.thread_started = FALSE]
            /\ worker' = [worker EXCEPT !.pc = "exited"]
            /\ g' = [g EXCEPT !.faults = @ + 1, !.unlocked = @ \cup {"disabled"}]
       ELSE /\ worker' = [worker EXCEPT !.pc = "wait"]
            /\ UNCHANGED << ctx, g >>
    /\ UNCHANGED << ksi, blockFile, sigFile, stateFile, signer_queue, as, caller,
                    module_lock, queue_mutex, now >>

\* the guard of sigblkCheckTimeOut
TimedOut ==
    /\ ctx.ksi # 0
    /\ ~ctx.disabled
    /\ ctx.blockTimeLimit # 0
    /\ ksi[ctx.ksi].bInBlk
    /\ ~(ksi[ctx.ksi].blockStarted + ctx.blockTimeLimit > now)

\* what the metadata leaf and the finish of sigblkCheckTimeOut yield under f
CheckTimeOutResult(f) ==
    LET Finished(m, fin) ==
            [ k |-> fin.k, out |-> m.out \o fin.out, ctx |-> fin.ctx,
              queue |-> fin.queue, enq |-> fin.enq, qfail |-> fin.called /\ ~fin.enq,
              tree |-> TrackFinish(TrackLeaf(g.tree[ctx.ksi], m, m.inner), m.k, fin) ]
        Metadata(m) ==
            Finished(m, FinishAndEnqueue(ctx, signer_queue, m.k, g.nextId, f, 1))
    IN  Metadata(sigblkAddMetadata(ksi[ctx.ksi],
                                   "Block closed due to reaching time limit", f.leaf,
                                   f.io))

\* ProtectedQueue_waitForItem returns, then sigblkCheckTimeOut up to its
\* call of sigblkInitKSI (which it makes holding the lock)
sigblkCheckTimeOut(f) ==
    /\ worker.pc = "wait"
    /\ module_lock = "free"
    /\ IF TimedOut
       THEN /\ f \in Faults
            /\ \E R \in {CheckTimeOutResult(f)} :
                   /\ f # NoFault => R # CheckTimeOutResult(NoFault)
                   /\ ksi' = [ksi EXCEPT ![ctx.ksi] = R.k]
                   /\ blockFile' = [blockFile EXCEPT ![ctx.ksi] = @ \o R.out]
                   /\ ctx' = R.ctx
                   /\ signer_queue' = R.queue
                   /\ g' = [g EXCEPT !.faults = @ + Spend(f),
                                     !.nextId = @ + (IF R.enq THEN 1 ELSE 0),
                                     !.enq = IF R.enq THEN Append(@, Last(R.queue)) ELSE @,
                                     !.qfailed = @ \/ R.qfail,
                                     !.tree[ctx.ksi] = R.tree]
            /\ module_lock' = "worker"
            /\ worker' = [worker EXCEPT !.pc = "sigblkCheckTimeOut"]
       ELSE /\ f = NoFault
            /\ worker' = [worker EXCEPT !.pc = "count"]
            /\ UNCHANGED << ksi, blockFile, ctx, signer_queue, g, module_lock >>
    /\ UNCHANGED << sigFile, stateFile, as, caller, queue_mutex, now >>

\* sigblkCheckTimeOut: sigblkInitKSI on the current handle, then the unlock
sigblkCheckTimeOut_init(limit) ==
    /\ worker.pc = "sigblkCheckTimeOut"
    /\ limit \in BlockSizeLimits(ctx.effectiveBlockLevelLimit)
    /\ ksi' = [ksi EXCEPT ![ctx.ksi] = sigblkInitKSI(@, g.seeds + 1, now, limit)]
    /\ g' = [g EXCEPT !.seeds = @ + 1, !.tree[ctx.ksi] = TrackInit(@)]
    /\ module_lock' = "free"
    /\ worker' = [worker EXCEPT !.pc = "count"]
    /\ UNCHANGED << ctx, blockFile, sigFile, stateFile, signer_queue, as, caller,
                    queue_mutex, now >>

\* the test of ProtectedQueue_count and of ksiFile in the loop of
\* signer_thread, which selects one of its two calls of process_requests_async
signer_thread_count ==
    /\ worker.pc = "count"
    /\ worker' = IF signer_queue = << >>
                 THEN [worker EXCEPT !.pc = "process", !.back = "wait"]
                 ELSE IF worker.ksiFile # NULL
                 THEN [worker EXCEPT !.pc = "process", !.back = "front"]
                 ELSE [worker EXCEPT !.pc = "front"]
    /\ UNCHANGED << ctx, ksi, blockFile, sigFile, stateFile, signer_queue, as, caller,
                    module_lock, queue_mutex, now, g >>

(***************************************************************************)
(* process_requests_async: its three loops.                                *)
(***************************************************************************)
\* first loop: every handle KSI_AsyncService_run returns is applied
RECURSIVE DrainLoop(_, _, _, _, _)
DrainLoop(c, q, ready, writes, level) ==
    IF ready = {}
    THEN [ctx |-> c, queue |-> q, writes |-> writes, level |-> level]
    ELSE LET hd == CHOOSE x \in ready : TRUE
             rest == ready \ {hd}
             Upd(it) ==
                 IF it.id # hd.item THEN it
                 ELSE IF hd.state = "KSI_ASYNC_STATE_RESPONSE_RECEIVED"
                 THEN [it EXCEPT !.respHandle = [sig |-> hd.sig],
                                 !.ksi_status = "KSI_OK", !.status = "QITEM_DONE"]
                 ELSE [it EXCEPT !.ksi_status = "KSI_SERVICE_ERROR",
                                 !.status = "QITEM_DONE"]
         IN  IF hd.state = "KSI_ASYNC_STATE_PUSH_CONFIG_RECEIVED"
             THEN DrainLoop(handle_ksi_config(c, hd.config), q, rest,
                            writes \cup ConfigWrites(c, hd.config),
                            IF hd.config.maxLevel # -1 THEN hd.config.maxLevel ELSE level)
             ELSE DrainLoop(c, [i \in 1..Len(q) |-> Upd(q[i])], rest, writes, level)

\* a second loop that hands no request to the async service
DispatchLoop_idle(q, i, n, pending, f) ==
    [queue |-> q, pending |-> pending, ret |-> TRUE, refused |-> {}]

\* a second loop that goes on handing requests over after a refusal
DispatchLoop_through(q, i, n, pending, f) ==
    LET W == { k \in i..Len(q) : q[k].type = "QITEM_SIGNATURE_REQUEST"
                                   /\ q[k].status = "QITEM_WAITING" }
        Nth(k) == Cardinality({ w \in W : w <= k })
        R == { k \in W : f.send = n + Nth(k) /\ f.sendAs = "refused" }
    IN  [ queue |-> [ k \in 1..Len(q) |->
                        IF k \in R
                        THEN [q[k] EXCEPT !.status = "QITEM_DONE",
                                          !.ksi_status = "KSI_ASYNC_REQUEST_CACHE_FULL"]
                        ELSE IF k \in W THEN [q[k] EXCEPT !.status = "QITEM_SENT"]
                        ELSE q[k] ],
          pending |-> pending \cup { [item |-> q[k].id, hash |-> q[k].arg,
                                      level |-> q[k].intarg2] : k \in W \ R },
          ret |-> TRUE, refused |-> { q[k].id : k \in R } ]

\* second loop: the waiting requests are handed to KSI_AsyncService_addRequest
\* in queue order; n counts the requests handed over in this call
RECURSIVE DispatchLoop(_, _, _, _, _)
DispatchLoop(q, i, n, pending, f) ==
    IF i > Len(q)
    THEN [queue |-> q, pending |-> pending, ret |-> TRUE, refused |-> {}]
    ELSE IF q[i].type # "QITEM_SIGNATURE_REQUEST" \/ q[i].status # "QITEM_WAITING"
    THEN DispatchLoop(q, i + 1, n, pending, f)
    ELSE LET outcome == IF f.send = n + 1 THEN f.sendAs
                        ELSE IF q[i].arg = NULL THEN "refused" ELSE "accepted"
         IN  CASE outcome = "failed" ->
                    [queue |-> q, pending |-> pending, ret |-> FALSE, refused |-> {}]
               [] outcome = "refused" ->
                    [queue |-> [q EXCEPT ![i].status = "QITEM_DONE",
                                         ![i].ksi_status = "KSI_ASYNC_REQUEST_CACHE_FULL"],
                     pending |-> pending, ret |-> TRUE, refused |-> {q[i].id}]
               [] outcome = "accepted" ->
                    DispatchLoop([q EXCEPT ![i].status = "QITEM_SENT"], i + 1, n + 1,
                                 pending \cup {[item |-> q[i].id, hash |-> q[i].arg,
                                                level |-> q[i].intarg2]}, f)

\* a third loop that writes every finished request, wherever it stands in
\* the queue
FlushLoop_anywhere(q, out, f) ==
    LET IsDone(it) == it.type = "QITEM_SIGNATURE_REQUEST" /\ it.status = "QITEM_DONE"
        done == SelectSeq(q, IsDone)
    IN  [ queue |-> SelectSeq(q, LAMBDA it : ~IsDone(it)),
          out |-> out \o [i \in 1..Len(done) |-> save_response(done[i], f.ser # i)] ]

\* third loop: the finished requests at the front are popped and written
RECURSIVE FlushLoop(_, _, _)
FlushLoop(q, out, f) ==
    IF q # << >> /\ q[1].type = "QITEM_SIGNATURE_REQUEST" /\ q[1].status = "QITEM_DONE"
    THEN FlushLoop(Tail(q), Append(out, save_response(q[1], f.ser # Len(out) + 1)), f)
    ELSE [queue |-> q, out |-> out]

\* the SIGN items that stand WAITING in q behind one of the items in refused
HeldBehind(q, refused) ==
    { q[k].id : k \in { k \in DOMAIN q :
         /\ q[k].type = "QITEM_SIGNATURE_REQUEST"
         /\ q[k].status = "QITEM_WAITING"
         /\ \E i \in 1..(k - 1) : q[i].id \in refused } }

ProcessResult(f) ==
    LET Flushed(d, s, fl) ==
            [ ctx |-> d.ctx, writes |-> d.writes, level |-> d.level,
              pending |-> s.pending, ret |-> s.ret, refused |-> s.refused,
              queue |-> fl.queue, out |-> fl.out ]
        Dispatched(d, s) ==
            Flushed(d, s, IF s.ret THEN FlushLoop(s.queue, << >>, f)
                                   ELSE [queue |-> s.queue, out |-> << >>])
        Drained(d) == Dispatched(d, DispatchLoop(d.queue, 1, 0, as.pending, f))
    IN  Drained(DrainLoop(ctx, signer_queue, as.ready, {}, g.lastLevel))

\* leaving signer_thread through its cleanup label
Cleanup(w) == [w EXCEPT !.pc = "exited"]

\* one call of process_requests_async with the test of its result in
\* signer_thread; a write to a NULL outfile ends the process
process_requests_async(f) ==
    /\ worker.pc = "process"
    /\ f \in Faults
    /\ \E R \in {ProcessResult(f)} :
       \E lost \in {R.out # << >> /\ worker.ksiFile = NULL},
          quit \in {~R.ret /\ worker.back = "front"},
          full \in IF \E i \in DOMAIN R.out : "sig" \in DOMAIN R.out[i]
                   THEN BOOLEAN ELSE {FALSE} :
           /\ f # NoFault => R # ProcessResult(NoFault)
           /\ R.out # << >> => module_lock = "free"
           /\ signer_queue' = R.queue
           /\ as' = [pending |-> R.pending, ready |-> {}]
           /\ sigFile' = IF full /\ ~lost
                         THEN fclose(sigFile, fwrite(worker.ksiFile, R.out))
                         ELSE sigFile
           /\ ctx' = IF quit THEN [R.ctx EXCEPT !.disabled = TRUE, !.thread_started = FALSE]
                             ELSE R.ctx
           /\ \E w \in {IF lost THEN worker
                          ELSE [worker EXCEPT !.ksiFile =
                                   IF full THEN [@ EXCEPT !.buf = << >>]
                                           ELSE fwrite(@, R.out)]} :
                 worker' = IF lost THEN [w EXCEPT !.pc = "crashed"]
                           ELSE IF quit THEN Cleanup(w)
                           ELSE [w EXCEPT !.pc = worker.back]
           /\ g' = [g EXCEPT !.faults = @ + Spend(f),
                             !.failed = @ \cup R.refused,
                             !.held = @ \cup HeldBehind(signer_queue, R.refused),
                             !.freed = IF lost THEN @
                                       ELSE @ \o [ i \in 1..Len(R.out) |->
                                                     [ id |-> signer_queue[i].id,
                                                       lock |-> IF module_lock = "free"
                                                                THEN "worker"
                                                                ELSE module_lock ] ],
                             !.lastLevel = R.level,
                             !.unlocked = @ \cup R.writes
                                            \cup (IF quit THEN {"disabled"} ELSE {})]
    /\ UNCHANGED << ksi, blockFile, stateFile, caller, module_lock, queue_mutex, now >>

\* signer_thread after process_requests_async: ProtectedQueue_peekFront; a
\* signature request at the front restarts the loop
signer_thread_peek ==
    /\ worker.pc = "front"
    /\ worker' = IF signer_queue # << >>
                    /\ signer_queue[1].type = "QITEM_SIGNATURE_REQUEST"
                 THEN [worker EXCEPT !.pc = "wait"]
                 ELSE [worker EXCEPT !.pc = "pop"]
    /\ UNCHANGED << ctx, ksi, blockFile, sigFile, stateFile, signer_queue, as, caller,
                    module_lock, queue_mutex, now, g >>

\* signer_thread: ProtectedQueue_popFront and the handling of the item it
\* yields; an item of any other type than the three handled is freed
signer_thread_front ==
    /\ worker.pc = "pop"
    /\ IF signer_queue = << >>
       THEN /\ worker' = [worker EXCEPT !.pc = "wait"]
            /\ UNCHANGED << signer_queue, ctx, sigFile, g >>
       ELSE /\ signer_queue' = Tail(signer_queue)
            /\ CASE signer_queue[1].type = "QITEM_CLOSE_FILE" ->
                      /\ worker' = [worker EXCEPT !.pc = "wait", !.ksiFile = NULL]
                      /\ sigFile' = fclose(sigFile, worker.ksiFile)
                      /\ UNCHANGED << ctx, g >>
                 [] signer_queue[1].type = "QITEM_NEW_FILE" ->
                      /\ worker' = [worker EXCEPT !.pc = "wait",
                                                  !.ksiFile = signer_queue[1].arg]
                      /\ UNCHANGED << ctx, sigFile, g >>
                 [] signer_queue[1].type = "QITEM_QUIT" ->
                      /\ worker' = Cleanup([worker EXCEPT !.ksiFile = NULL])
                      /\ sigFile' = fclose(sigFile, worker.ksiFile)
                      /\ ctx' = [ctx EXCEPT !.thread_started = FALSE]
                      /\ UNCHANGED g
                 [] OTHER ->
                      /\ worker' = [worker EXCEPT !.pc = "wait"]
                      /\ g' = [g EXCEPT !.dropped = @ \cup {signer_queue[1].id}]
                      /\ UNCHANGED << ctx, sigFile >>
    /\ UNCHANGED << ksi, blockFile, stateFile, as, caller, module_lock, queue_mutex, now >>

(***************************************************************************)
(* The environment: the aggregator behind the async service, and time.     *)
(***************************************************************************)
\* the aggregator answers a request in flight, with a signature or an error
AggregatorRespond(p, ok) ==
    /\ p \in as.pending
    /\ Alive
    /\ ok \in IF g.faults < MaxFaults /\ "service" \in g.kinds THEN BOOLEAN ELSE {TRUE}
    /\ as' = [ pending |-> as.pending \ {p},
               ready |-> as.ready \cup
                  {[ state |-> IF ok THEN "KSI_ASYNC_STATE_RESPONSE_RECEIVED"
                                     ELSE "KSI_ASYNC_STATE_ERROR",
                     item |-> p.item, config |-> NoConfig,
                     sig |-> IF ok THEN Signature(p.hash, p.level) ELSE NULL ]} ]
    /\ g' = [g EXCEPT !.faults = @ + (IF ok THEN 0 ELSE 1),
                      !.failed = IF ok THEN @ ELSE @ \cup {p.item}]
    /\ UNCHANGED << ctx, ksi, blockFile, sigFile, stateFile, signer_queue, worker,
                    caller, module_lock, queue_mutex, now >>

\* the aggregator pushes a configuration to the async service; the service
\* hands it to the worker before it takes the next one
AggregatorPushConfig(config) ==
    /\ ctx.syncMode = "LOGSIG_ASYNCHRONOUS"
    /\ Running
    /\ g.configs < MaxConfigs
    /\ config \in Configs \ {NoConfig}
    /\ \A hd \in as.ready : hd.state # "KSI_ASYNC_STATE_PUSH_CONFIG_RECEIVED"
    /\ as' = [as EXCEPT !.ready = @ \cup
                 {[ state |-> "KSI_ASYNC_STATE_PUSH_CONFIG_RECEIVED", item |-> 0,
                    config |-> config, sig |-> NULL ]}]
    /\ g' = [g EXCEPT !.configs = @ + 1]
    /\ UNCHANGED << ctx, ksi, blockFile, sigFile, stateFile, signer_queue, worker,
                    caller, module_lock, queue_mutex, now >>

\* a second passes
Tick ==
    /\ now < MaxTime
    /\ Alive
    /\ now' = now + 1
    /\ UNCHANGED << ctx, ksi, blockFile, sigFile, stateFile, signer_queue, as, worker,
                    caller, module_lock, queue_mutex, g >>

(***************************************************************************)
(* Specifications.                                                         *)
(***************************************************************************)
\* the values blockSizeLimit can take
Limits == UNION { BlockSizeLimits(l) : l \in 0..MaxCfgValue }

\* the host thread between rsksiCtxNew and rsksiCtxDel; in synchronous mode
\* the server's configuration is read in rsksiCtxOpenFile
OpenNext(configs) ==
    \E h \in AllLogs, f \in Faults, c \in configs, l \in Limits :
       rsksiCtxOpenFile(h, f, c, l)

BlockNext ==
    \/ \E h \in AllLogs : sigblkInitKSI_begin(h)
    \/ \E l \in Limits : sigblkInitKSI_end(l)
    \/ \E h \in AllLogs, f \in Faults : rsksifileDestruct(h, f)

RecordNext ==
    \E h \in AllLogs, rec \in Records, f \in Faults, l \in Limits :
       sigblkAddRecordKSI(h, rec, f, l)

ShutdownNext ==
    \/ \E f \in Faults : rsksiCtxDel(f)
    \/ rsksiCtxDel_join

\* the worker's loop while no block reaches its time limit
LoopNext ==
    \/ \E e \in {0, 1} : signer_thread_start(e)
    \/ \E f \in Faults : sigblkCheckTimeOut(f)
    \/ signer_thread_count
    \/ \E f \in Faults : process_requests_async(f)

QueueNext ==
    \/ signer_thread_peek
    \/ signer_thread_front
    \/ \E p \in as.pending, ok \in BOOLEAN : AggregatorRespond(p, ok)

TimeNext ==
    \/ \E l \in Limits : sigblkCheckTimeOut_init(l)
    \/ Tick

PushNext == \E c \in Configs : AggregatorPushConfig(c)

\* Asynchronous mode, one log, blocks of two leaves, no time limit, every
\* failure but those of the hasher and of the writes to the block file.
Init ==
    InitWith({"LOGSIG_ASYNCHRONOUS"}, {2}, {0}, {FALSE}, {1}, {[bytes |-> "A"]},
             FaultKinds \ {"hash", "io"})

Next == OpenNext({NoConfig}) \/ BlockNext \/ RecordNext \/ ShutdownNext
           \/ LoopNext \/ QueueNext

Spec == Init /\ [][Next]_vars

\* Synchronous mode, one log, blocks of four leaves, tree hashes kept, hasher
\* failures: the Merkle accumulator and the chain of blocks.
InitTree ==
    InitWith({"LOGSIG_SYNCHRONOUS"}, {3}, {0}, {TRUE}, {1}, Records, {"hash"})

NextTree == OpenNext({NoConfig}) \/ BlockNext \/ RecordNext \/ LoopNext

SpecTree == InitTree /\ [][NextTree]_vars

\* Asynchronous mode with a block time limit of one second.
InitTime ==
    InitWith({"LOGSIG_ASYNCHRONOUS"}, {2}, {1}, {FALSE}, {1}, {[bytes |-> "A"]}, {})

NextTime ==
    \/ OpenNext({NoConfig}) \/ BlockNext \/ LoopNext \/ QueueNext \/ TimeNext
    \/ (g.records < MaxTimedRecords /\ RecordNext)

SpecTime == InitTime /\ [][NextTime]_vars

\* Both modes with server configurations: read at open in synchronous mode,
\* pushed to the worker in asynchronous mode.  The host logs no record.
InitConfig ==
    InitWith({"LOGSIG_SYNCHRONOUS", "LOGSIG_ASYNCHRONOUS"}, {2, 3}, {0}, {FALSE}, {1},
             {}, {})

NextConfig == OpenNext(Configs) \/ BlockNext \/ LoopNext \/ QueueNext \/ PushNext

SpecConfig == InitConfig /\ [][NextConfig]_vars

\* Asynchronous mode with an aggregator that answers, errs or refuses, under
\* fair scheduling: the worker thread keeps running its loop, and the
\* aggregator answers every request in flight.
InitLive ==
    InitWith({"LOGSIG_ASYNCHRONOUS"}, {2}, {0}, {FALSE}, {1}, {[bytes |-> "A"]},
             {"service", "refuse"})

NextLive ==
    \/ OpenNext({NoConfig}) \/ BlockNext \/ ShutdownNext \/ LoopNext \/ QueueNext
    \/ (g.records < MaxLiveRecords /\ RecordNext)

SpecLive ==
    /\ InitLive
    /\ [][NextLive]_vars
    /\ WF_vars(LoopNext)
    /\ WF_vars(signer_thread_peek)
    /\ WF_vars(signer_thread_front)
    /\ WF_vars(\E p \in as.pending, ok \in BOOLEAN : AggregatorRespond(p, ok))

\* one log in asynchronous mode under fair scheduling, where a call of
\* add_queue_item may fail
InitQuit ==
    InitWith({"LOGSIG_ASYNCHRONOUS"}, {2}, {0}, {FALSE}, {1}, {[bytes |-> "A"]},
             {"queue"})

NextQuit ==
    \/ OpenNext({NoConfig}) \/ BlockNext \/ ShutdownNext \/ LoopNext \/ QueueNext
    \/ (g.records < MaxLiveRecords /\ RecordNext)

SpecQuit ==
    /\ InitQuit
    /\ [][NextQuit]_vars
    /\ WF_vars(LoopNext)
    /\ WF_vars(signer_thread_peek)
    /\ WF_vars(signer_thread_front)
    /\ WF_vars(\E p \in as.pending, ok \in BOOLEAN : AggregatorRespond(p, ok))

\* one log in synchronous mode, reopened, where an earlier process may have
\* left a state file written under any hash algorithm
PriorStateFiles ==
    {NULL} \cup { [ hdr |-> "KSISTAT10", hashID |-> a, lenHash |-> KSI_getHashLength(a),
                    digest |-> [prior |-> a] ] : a \in HashAlgs }

InitState ==
    InitFrom({"LOGSIG_SYNCHRONOUS"}, {2}, {0}, {FALSE}, {1}, {[bytes |-> "A"]}, {},
             PriorStateFiles)

NextState == OpenNext({NoConfig}) \/ BlockNext \/ RecordNext \/ LoopNext

SpecState == InitState /\ [][NextState]_vars

\* one log in synchronous mode with records, where the server reports a
\* configuration at every open
InitLimit ==
    InitWith({"LOGSIG_SYNCHRONOUS"}, {2}, {0}, {FALSE}, {1}, {[bytes |-> "A"]}, {})

NextLimit == OpenNext(Configs) \/ BlockNext \/ RecordNext \/ LoopNext

SpecLimit == InitLimit /\ [][NextLimit]_vars

\* Asynchronous mode with and without a block time limit, failing hasher
\* calls.
InitExpire ==
    InitWith({"LOGSIG_ASYNCHRONOUS"}, {2}, {0, 1}, {FALSE}, {1}, {[bytes |-> "A"]},
             {"hash"})

NextExpire ==
    \/ OpenNext({NoConfig}) \/ BlockNext \/ LoopNext \/ QueueNext \/ TimeNext
    \/ (g.records < MaxExpireRecords /\ RecordNext)

SpecExpire == InitExpire /\ [][NextExpire]_vars

\* Synchronous mode with failing hasher calls and a failing signing service.
InitSign ==
    InitWith({"LOGSIG_SYNCHRONOUS"}, {3}, {0}, {FALSE}, {1}, {[bytes |-> "A"]},
             {"hash", "sign"})

NextSign == OpenNext({NoConfig}) \/ BlockNext \/ RecordNext \/ LoopNext

SpecSign == InitSign /\ [][NextSign]_vars

\* Synchronous mode, one log, blocks of four leaves, record and tree hashes
\* kept, where a write to the block file may fail.
InitIO ==
    InitWith({"LOGSIG_SYNCHRONOUS"}, {3}, {0}, {TRUE}, {1}, {[bytes |-> "A"]}, {"io"})

NextIO == OpenNext({NoConfig}) \/ BlockNext \/ RecordNext \/ LoopNext

SpecIO == InitIO /\ [][NextIO]_vars

(***************************************************************************)
(* The helper functions on their own: each action is one call, with its    *)
(* arguments and its result kept in g.call.                                *)
(***************************************************************************)
\* the flag bits a caller may pass (bits 5 and 6 of the first octet)
TlvFlags == {0, 32, 64, 96}
\* tags of both forms, the ones the library writes among them
TlvTags == {1, 2, 3, 31, 32, 255, 2305, 2306, 2307, 2308, 2309, 8191}
\* value lengths up to the largest a uint16_t holds
TlvLens == {0, 1, 32, 255, 256, 257, 4660, 65535}

\* leaf counts around 2^30 and the largest even one an int holds
LargeLeaves == {1073741822, 1073741824, 1073741826, 2147483646}

tlvWriteHeader_call(flags, tlvtype, len) ==
    /\ g' = [g EXCEPT !.call = [fn |-> "tlvWriteHeader", flags |-> flags,
                                tlvtype |-> tlvtype, len |-> len,
                                out |-> tlvWriteHeader(flags, tlvtype, len)]]
    /\ UNCHANGED << ctx, ksi, blockFile, sigFile, stateFile, signer_queue, as, worker,
                    caller, module_lock, queue_mutex, now >>

sigblkCalcLevel_call(leaves) ==
    /\ g' = [g EXCEPT !.call = [fn |-> "sigblkCalcLevel", leaves |-> leaves,
                                out |-> sigblkCalcLevel(leaves)]]
    /\ UNCHANGED << ctx, ksi, blockFile, sigFile, stateFile, signer_queue, as, worker,
                    caller, module_lock, queue_mutex, now >>

\* roots[] and nRoots after n leaves: slot j holds a node of level j + 1
\* exactly if bit j of n is set
RootsOf(n) ==
    LET nRoots == CHOOSE L \in 0..n : 2 ^ L > n /\ (L = 0 \/ 2 ^ (L - 1) <= n)
    IN  [ i \in 1..nRoots |-> IF (n \div 2 ^ (i - 1)) % 2 = 1 THEN [slot |-> i - 1]
                                                              ELSE NULL ]

\* sigblkFinishKSI on a block of n leaves, in synchronous mode, no call failing
sigblkFinishKSI_call(n) ==
    /\ \E R \in { sigblkFinishKSI([rsksifileConstruct(ctx, n + 1) EXCEPT
                                       !.roots = RootsOf(n), !.nRoots = Len(RootsOf(n)),
                                       !.nRecords = n, !.bInBlk = TRUE,
                                       !.IV = seedIVKSI(1)],
                                   "LOGSIG_SYNCHRONOUS", 0, "stale", TRUE) } :
          g' = [g EXCEPT !.call = [fn |-> "sigblkFinishKSI", roots |-> RootsOf(n),
                                   root |-> R.out[Len(R.out)].sig.over,
                                   level |-> R.out[Len(R.out)].sig.level,
                                   after |-> R.k.roots, nodes |-> R.nodes]]
    /\ UNCHANGED << ctx, ksi, blockFile, sigFile, stateFile, signer_queue, as, worker,
                    caller, module_lock, queue_mutex, now >>

\* the handle and the tree nodes after n sigblkAddLeaf calls on k, none failing
RECURSIVE LeavesAdded(_, _)
LeavesAdded(k, n) ==
    LET Step(p) ==
            LET Joined(a) == [k |-> a.k, nodes |-> p.nodes \o a.nodes]
            IN  Joined(sigblkAddLeaf(p.k, [bytes |-> "A"], FALSE, 0, 0))
    IN  IF n = 0 THEN [k |-> k, nodes |-> << >>] ELSE Step(LeavesAdded(k, n - 1))

\* a whole block in synchronous mode: n sigblkAddLeaf calls on a fresh block,
\* then sigblkFinishKSI, no call failing
sigblkBlock_call(n) ==
    /\ \E L \in { LeavesAdded([rsksifileConstruct(ctx, 1) EXCEPT
                                   !.bInBlk = TRUE, !.IV = seedIVKSI(1)], n) } :
       \E R \in { sigblkFinishKSI(L.k, "LOGSIG_SYNCHRONOUS", 0, "stale", TRUE) } :
          g' = [g EXCEPT !.call = [fn |-> "block", n |-> n,
                                   nRecords |-> L.k.nRecords,
                                   root |-> R.out[Len(R.out)].sig.over,
                                   level |-> R.out[Len(R.out)].sig.level,
                                   nodes |-> L.nodes \o R.nodes]]
    /\ UNCHANGED << ctx, ksi, blockFile, sigFile, stateFile, signer_queue, as, worker,
                    caller, module_lock, queue_mutex, now >>

InitUnit ==
    InitWith({"LOGSIG_SYNCHRONOUS"}, {2}, {0}, {FALSE}, {1}, {[bytes |-> "A"]}, {})

NextUnit ==
    \/ \E flags \in TlvFlags, tlvtype \in TlvTags, len \in TlvLens :
          tlvWriteHeader_call(flags, tlvtype, len)
    \/ \E leaves \in (0..MaxLeaves) \cup LargeLeaves : sigblkCalcLevel_call(leaves)
    \/ \E n \in 1..MaxFoldLeaves : sigblkFinishKSI_call(n)
    \/ \E n \in 1..MaxFoldLeaves : sigblkBlock_call(n)

SpecUnit == InitUnit /\ [][NextUnit]_vars

(***************************************************************************)
(* Properties.                                                             *)
(***************************************************************************)
\* what has been written to a log's signature file: its content on disk and
\* the buffer of the stream the worker holds on it
SigWritten(h) ==
    sigFile[h] \o (IF worker.ksiFile # NULL /\ worker.ksiFile.file = h
                   THEN worker.ksiFile.buf ELSE << >>)

\* the signature TLVs among them (all but the magic)
SigTLVs(h) == SelectSeq(SigWritten(h), LAMBDA tlv : tlv.t # "magic")

\* the root imprint a signature TLV was written for
SignedRoot(tlv) == IF "sig" \in DOMAIN tlv THEN tlv.sig.over ELSE tlv.nosig

\* the signature requests in the signer queue, in queue order
Requests == SelectSeq(signer_queue, LAMBDA it : it.type = "QITEM_SIGNATURE_REQUEST")

\* the SIGN items enqueued that the worker has not freed unwritten
Kept == SelectSeq(g.enq, LAMBDA it : it.id \notin g.dropped)

\* C1: order preservation.  At every moment of a run of one log in
\* asynchronous mode the signature TLVs in the signature file are, one for
\* one and in order, the first SIGN items that were enqueued (same record
\* count, same root), and the SIGN items still in the queue are the
\* remaining ones in enqueue order; real signatures and no-signature TLVs
\* alike, whatever the order in which the aggregator answered.
OrderPreserved ==
    Alive =>
      /\ Len(SigTLVs(1)) + Len(Requests) = Len(g.enq)
      /\ \A i \in 1..Len(SigTLVs(1)) :
            /\ SigTLVs(1)[i].t = "0904"
            /\ SigTLVs(1)[i].count = g.enq[i].intarg1
            /\ SignedRoot(SigTLVs(1)[i]) = g.enq[i].arg
      /\ \A i \in 1..Len(Requests) : Requests[i].id = g.enq[Len(SigTLVs(1)) + i].id

\* the same order for the SIGN items the worker has not freed unwritten
OrderPreservedKept ==
    Alive =>
      /\ Len(SigTLVs(1)) + Len(Requests) = Len(Kept)
      /\ \A i \in 1..Len(SigTLVs(1)) :
            /\ SigTLVs(1)[i].t = "0904"
            /\ SigTLVs(1)[i].count = Kept[i].intarg1
            /\ SignedRoot(SigTLVs(1)[i]) = Kept[i].arg
      /\ \A i \in 1..Len(Requests) : Requests[i].id = Kept[Len(SigTLVs(1)) + i].id

\* C1 witness: a TLV has been written while a later request, already
\* answered, is held back behind an earlier one that is still in flight
OrderPreservedWitness ==
    /\ Len(SigTLVs(1)) >= 1
    /\ \E i, j \in 1..Len(Requests) :
          /\ i < j
          /\ Requests[i].status = "QITEM_SENT"
          /\ Requests[j].status = "QITEM_DONE"

\* C5: an aggregator failure keeps the block's place.  Every SIGN item the
\* async service answered with ERROR or refused to accept, once written, has
\* at its own position in the signature file (its place among the items that
\* were written or are still queued) a no-signature TLV with the item's
\* record count, its root imprint and a non-empty error text.
FailurePlaceKept ==
    \A i \in 1..Len(SigTLVs(1)) :
       (i <= Len(Kept) /\ Kept[i].id \in g.failed) =>
          /\ SigTLVs(1)[i].t = "0904"
          /\ "nosig" \in DOMAIN SigTLVs(1)[i]
          /\ SigTLVs(1)[i].count = Kept[i].intarg1
          /\ SigTLVs(1)[i].nosig = Kept[i].arg
          /\ SigTLVs(1)[i].nosig # NULL
          /\ SigTLVs(1)[i].err # ""

\* no item the async service failed or refused is freed unwritten
FailedNeverDropped == g.failed \cap g.dropped = {}

\* C5 witness: the no-signature TLV of a failed item is in the file and the
\* TLV of the block behind it has been written after it
FailurePlaceKeptWitness ==
    \E i \in 1..Len(SigTLVs(1)) :
       /\ i < Len(SigTLVs(1))
       /\ i <= Len(Kept)
       /\ Kept[i].id \in g.failed
       /\ "nosig" \in DOMAIN SigTLVs(1)[i]

\* the bits set in the binary representation of k
Bits(k) == { j \in 0..MaxRecords : (k \div (2 ^ j)) % 2 = 1 }

\* C2: carry invariant.  Within a block, after the k-th successful addLeaf
\* (metadata leaves included), slot j of roots[] is occupied if and only if
\* bit j of k is 1.
CarryInvariant ==
    \A h \in AllLogs : g.tree[h].ok => g.tree[h].occ = Bits(g.tree[h].k)

\* C3 as stated: the lastLeaf written in a block header is the final tree
\* node produced while building the previous block of the log.
HeaderHasFinalNode ==
    \A h \in AllLogs :
       (g.tree[h].hdr.has /\ g.tree[h].hdr.final # NULL) =>
          g.tree[h].hdr.lastLeaf = g.tree[h].hdr.final

\* C3: chain continuity.  The lastLeaf written in a block header is the
\* level-1 node of the last leaf (record or metadata) hashed in the previous
\* block of the log, not a node of the carry or of the final fold.
ChainContinuity ==
    \A h \in AllLogs :
       (g.tree[h].hdr.has /\ g.tree[h].hdr.leaf # NULL) =>
          g.tree[h].hdr.lastLeaf = g.tree[h].hdr.leaf

\* C3 witness: a second block header has been written after a block whose
\* last produced node was not its last leaf node
ChainContinuityWitness ==
    \E h \in AllLogs :
       /\ g.tree[h].hdr.has
       /\ g.tree[h].hdr.leaf # NULL
       /\ g.tree[h].hdr.final # g.tree[h].hdr.leaf
       /\ g.tree[h].hdr.lastLeaf = g.tree[h].hdr.leaf

\* C6 as stated: the effective block-level limit only decreases; no step
\* leaves it greater than it was.
LevelOnlyDecreases ==
    [][ctx'.effectiveBlockLevelLimit <= ctx.effectiveBlockLevelLimit]_vars

\* C6: the effective block-level limit is the configured limit until a
\* configuration reports a maxLevel, and from then on the smaller of the
\* last reported maxLevel and the configured limit; it never exceeds the
\* configured limit, and it rises again when the server reports more.
LevelFollowsConfig ==
    /\ ctx.effectiveBlockLevelLimit =
          IF g.lastLevel = -1 THEN ctx.blockLevelLimit
                              ELSE MIN(g.lastLevel, ctx.blockLevelLimit)
    /\ ctx.effectiveBlockLevelLimit <= ctx.blockLevelLimit

\* C6 witness: a configuration has lowered the effective limit below the
\* configured one
LevelFollowsConfigWitness ==
    /\ g.lastLevel # -1
    /\ g.configs >= 1
    /\ ctx.effectiveBlockLevelLimit = g.lastLevel
    /\ g.lastLevel < ctx.blockLevelLimit

\* C7: whenever the last handled configuration reported a maxLevel below 2
\* the context is disabled.
LowLevelDisables == g.lastLevel \in 0..1 => ctx.disabled

\* C8: once a queue allocation or push failure has disabled the context it
\* stays disabled, and a later record ingestion writes nothing to the
\* block-data file, changes no block state and enqueues nothing.
DisabledIngestionIsNoOp ==
    [][(g.qfailed /\ ctx.disabled) =>
          /\ ctx'.disabled
          /\ g'.records # g.records =>
                /\ blockFile' = blockFile
                /\ ksi' = ksi
                /\ signer_queue' = signer_queue]_vars

\* C9: disabled, effectiveBlockLevelLimit, max_requests and the ksi pointer
\* of the context are written only while module_lock is held.
ContextWrittenUnderLock == g.unlocked = {}

\* C10: the lock serializes the updates of a log's block state; a caller is
\* never inside sigblkInitKSI of a log while the worker is inside the
\* critical section of sigblkCheckTimeOut on that same log.
BlockStateSerialized ==
    ~(/\ caller.pc = "sigblkInitKSI"
      /\ worker.pc = "sigblkCheckTimeOut"
      /\ module_lock = "worker"
      /\ ctx.ksi = caller.h)

\* C4: every SIGN item that is enqueued is eventually popped and one
\* signature TLV for it is written to the signature file: for every n, once
\* n SIGN items have been enqueued the signature file eventually holds n
\* signature TLVs (the worker runs, it has adopted the file, and the
\* aggregator answers every request it was sent).
EverySignItemWritten ==
    \A n \in 1..MaxSign : (Len(g.enq) >= n) ~> (Len(SigTLVs(1)) >= n)

\* the same for the SIGN items the worker does not free unwritten
EveryKeptItemWritten ==
    \A n \in 1..MaxSign :
       (Len(g.enq) >= n) ~> (Len(SigTLVs(1)) + Cardinality(g.dropped) >= n)

\* C4 witness: two SIGN items were enqueued, the aggregator has answered
\* and both TLVs are in the signature file, the queue holding no request
EverySignItemWrittenWitness ==
    /\ Len(g.enq) >= 2
    /\ Len(SigTLVs(1)) = Len(g.enq)
    /\ Requests = << >>

\* C11: shutdown terminates.  Once rsksiCtxDel has enqueued QUIT for a
\* started worker and waits in pthread_join, the worker eventually pops the
\* QUIT item, closes its signature file and leaves signer_thread, whatever
\* the queue held at the time of the call.
ShutdownTerminates ==
    (caller.pc = "pthread_join") ~> (worker.pc = "exited" /\ worker.ksiFile = NULL)

\* C12 as stated: sigblkFinishKSI on an empty block appends nothing to the
\* block file, issues no signing request and leaves the handle unchanged.
EmptyFinishIsNoOp ==
    \A h \in AllLogs :
       (g.tree[h].fin.has /\ g.tree[h].fin.nRecords = 0) =>
          /\ g.tree[h].fin.out = << >>
          /\ ~g.tree[h].fin.called
          /\ g.tree[h].fin.changed = {}

\* C12: sigblkFinishKSI on an empty block appends nothing to the block file,
\* issues no signing request and leaves roots, nRoots, nRecords and lastLeaf
\* as they are; it does close the block: bInBlk is cleared and IV is freed.
EmptyFinishClosesBlock ==
    \A h \in AllLogs :
       (g.tree[h].fin.has /\ g.tree[h].fin.nRecords = 0) =>
          /\ g.tree[h].fin.out = << >>
          /\ ~g.tree[h].fin.called
          /\ g.tree[h].fin.changed = {"IV", "bInBlk"}

\* C12 witness: sigblkFinishKSI has run on an empty block
EmptyFinishWitness ==
    \E h \in AllLogs :
       /\ g.tree[h].fin.has
       /\ g.tree[h].fin.nRecords = 0
       /\ g.tree[h].fin.changed = {"IV", "bInBlk"}

\* C13: the persisted state round-trips.  When a log that was closed is
\* opened again, the lastLeaf imprint the new handle holds (algorithm id and
\* digest), which the first block header will carry, is the lastLeaf imprint
\* the handle held when the log was closed, whatever blocks were written
\* before the close.
StateRoundTrip ==
    [][\A h \in AllLogs :
          (~ksi[h].open /\ ksi'[h].open /\ g.tree[h].closed.has) =>
             /\ ksi'[h].lastLeaf = g.tree[h].closed.digest
             /\ ksi'[h].lastLeafId = g.tree[h].closed.id]_vars

\* the layout of a block-data file f written with the given keep flags: the
\* magic, then blocks that each start with the one block header, hold for
\* each leaf the metadata bytes (metadata leaf), the record hash and the
\* tree hashes, and end with the one 0x0904 TLV, whose record count is the
\* number of leaves of the block
LayoutOf(f, keepRec, keepTree) ==
    f # << >> =>
      /\ f[1].t = "magic"
      /\ \A i \in 2..Len(f) :
            /\ f[i].t \in {"0901", "0902", "0903", "0904", "0911"}
            /\ f[i].t = "0901" <=> (i = 2 \/ f[i - 1].t = "0904")
            /\ f[i].t = "0911" =>
                  /\ i < Len(f)
                  /\ f[i + 1].t = IF keepRec THEN "0902"
                                  ELSE IF keepTree THEN "0903" ELSE "0904"
            /\ f[i].t = "0902" =>
                  /\ keepRec
                  /\ keepTree => (i < Len(f) /\ f[i + 1].t = "0903")
            /\ f[i].t = "0903" => keepTree
            /\ (f[i].t = "0904" /\ keepRec) =>
                  \E s \in 2..i :
                     /\ f[s].t = "0901"
                     /\ \A j \in (s + 1)..i : f[j].t # "0901"
                     /\ f[i].count = Cardinality({ j \in s..i : f[j].t = "0902" })

\* C14: block-data layout.  Between public calls the block-data file of
\* every log is the magic followed by blocks of the layout above, and the
\* file of a closed log ends with the 0x0904 TLV of its last block.
BlockDataLayout ==
    \A h \in AllLogs :
       /\ LayoutOf(blockFile[h], ctx.bKeepRecordHashes, ctx.bKeepTreeHashes)
       /\ (~ksi[h].open /\ Len(blockFile[h]) > 1) => Last(blockFile[h]).t = "0904"

\* the same layout in the runs where no call has failed
BlockDataLayoutUnfailed == g.faults = 0 => BlockDataLayout

\* C15: size limit.  Between public calls an open block has fewer records
\* than blockSizeLimit, and no finished block holds more leaves than the
\* blockSizeLimit it was built under.
SizeLimitKept ==
    \A h \in AllLogs :
       /\ (ksi[h].open /\ ksi[h].bInBlk /\ caller.pc = "idle" /\ module_lock = "free") =>
             ksi[h].nRecords < ksi[h].blockSizeLimit
       /\ g.tree[h].fin.has => g.tree[h].fin.nRecords <= g.tree[h].fin.limit

\* the step of the worker that runs sigblkCheckTimeOut up to its sigblkInitKSI
CheckTimeOutStep == worker.pc = "wait" /\ worker'.pc # "wait"

\* that step closes the block
ClosesBlock == worker'.pc = "sigblkCheckTimeOut"

\* the metadata leaf that step has appended to the block file
CloseReasonAdded ==
    \E i \in (Len(blockFile[ctx.ksi]) + 1)..Len(blockFile'[ctx.ksi]) :
       /\ blockFile'[ctx.ksi][i].t = "0911"
       /\ blockFile'[ctx.ksi][i].bytes.key = "com.guardtime.blockCloseReason"

\* what follows a close: the metadata leaf, the finished block, and a new
\* block once sigblkInitKSI has run
CloseSequence ==
    /\ (CheckTimeOutStep /\ ClosesBlock) =>
          (CloseReasonAdded /\ ~ksi'[ctx.ksi].bInBlk)
    /\ (worker.pc = "sigblkCheckTimeOut" /\ worker'.pc # "sigblkCheckTimeOut") =>
          (ksi'[ctx.ksi].bInBlk /\ ksi'[ctx.ksi].nRecords = 0)

\* C16 as worded: time limit.  checkTimeout closes a block if and only if a block is
\* open and blockStarted + T < now; when it does it adds a metadata leaf with
\* key com.guardtime.blockCloseReason, finishes the block and initialises a
\* new one (bInBlk set, nRecords = 0).
TimeLimitCloses ==
    [][ /\ CheckTimeOutStep =>
             (ClosesBlock <=> (/\ ctx.ksi # 0
                               /\ ksi[ctx.ksi].bInBlk
                               /\ ksi[ctx.ksi].blockStarted + ctx.blockTimeLimit < now))
        /\ CloseSequence ]_vars

\* C16 with the test the code makes: checkTimeout closes a block if and only
\* if the context is enabled, T is not 0, a block is open and
\* blockStarted + T <= now; when it does it adds a metadata leaf with key
\* com.guardtime.blockCloseReason, finishes the block and initialises a new
\* one (bInBlk set, nRecords = 0).
TimeLimitClosesOnTime ==
    [][ /\ CheckTimeOutStep =>
             (ClosesBlock <=> (/\ ctx.ksi # 0
                               /\ ~ctx.disabled
                               /\ ctx.blockTimeLimit # 0
                               /\ ksi[ctx.ksi].bInBlk
                               /\ ksi[ctx.ksi].blockStarted + ctx.blockTimeLimit <= now))
        /\ CloseSequence ]_vars

\* the guard alone
TimeLimitGuard ==
    [][ CheckTimeOutStep =>
             (ClosesBlock <=> (/\ ctx.ksi # 0
                               /\ ~ctx.disabled
                               /\ ctx.blockTimeLimit # 0
                               /\ ksi[ctx.ksi].bInBlk
                               /\ ksi[ctx.ksi].blockStarted + ctx.blockTimeLimit <= now)) ]_vars

\* C17: TLV header encoding.  For every valid (tag, len) the header writer
\* emits the 2-octet form when the tag fits in 5 bits and len <= 255 and the
\* 4-octet form otherwise, and reading the emitted header back yields the
\* same tag and the same len.
HeaderRoundTrip ==
    g.call.fn = "tlvWriteHeader" =>
       /\ Len(g.call.out) =
             IF g.call.tlvtype <= 31 /\ g.call.len <= 255 THEN 2 ELSE 4
       /\ tlvReadHeader(g.call.out).ok
       /\ tlvReadHeader(g.call.out).tag = g.call.tlvtype
       /\ tlvReadHeader(g.call.out).len = g.call.len

\* the same for the pairs whose tag does not fit in 5 bits or whose len is at
\* most 255, which are the ones the library itself writes
HeaderRoundTripShort ==
    (g.call.fn = "tlvWriteHeader" /\ (g.call.tlvtype > 31 \/ g.call.len <= 255)) =>
       /\ Len(g.call.out) =
             IF g.call.tlvtype <= 31 /\ g.call.len <= 255 THEN 2 ELSE 4
       /\ tlvReadHeader(g.call.out).ok
       /\ tlvReadHeader(g.call.out).tag = g.call.tlvtype
       /\ tlvReadHeader(g.call.out).len = g.call.len

\* l is the smallest non-negative integer with 2^l >= n (for n >= 1)
SmallestLevel(l, n) ==
    \/ l = 0 /\ n <= 1
    \/ l > 0 /\ 2 ^ (l - 1) < n /\ (n + 1) \div 2 <= 2 ^ (l - 1)

\* C18: level formula.  For every N >= 1 whose double an int holds,
\* sigblkCalcLevel(2*N) is the smallest non-negative integer l with
\* 2^l >= 2*N, and sigblkCalcLevel(0) = 0.
LevelIsCeilLog2 ==
    g.call.fn = "sigblkCalcLevel" =>
       /\ g.call.leaves = 0 => g.call.out = 0
       /\ (g.call.leaves >= 2 /\ g.call.leaves % 2 = 0) =>
             SmallestLevel(g.call.out, g.call.leaves)

\* sigblkCalcLevel has been called on a count that is not a power of two
LevelIsCeilLog2Witness ==
    g.call.fn = "sigblkCalcLevel" /\ g.call.leaves = 6 /\ g.call.out = 3

\* the 0x0904 TLVs among the TLVs a finish has appended
SignatureTLVs(out) == { i \in DOMAIN out : out[i].t = "0904" }

\* the finish recorded for h ran on a block with records, in synchronous mode
SyncFinish(h) ==
    /\ ctx.syncMode = "LOGSIG_SYNCHRONOUS"
    /\ g.tree[h].fin.has
    /\ g.tree[h].fin.nRecords > 0

\* that finish appended exactly one 0x0904 TLV: a signature TLV if signing
\* and serialization succeeded, a no-signature TLV with the root imprint and
\* an error string otherwise; and it cleared bInBlk
OneSignatureTLV(fin) ==
    /\ Cardinality(SignatureTLVs(fin.out)) = 1
    /\ \A i \in SignatureTLVs(fin.out) :
          /\ fin.out[i].count = fin.nRecords
          /\ IF fin.signOk
             THEN "sig" \in DOMAIN fin.out[i]
             ELSE /\ "nosig" \in DOMAIN fin.out[i]
                  /\ fin.out[i].nosig # NULL
                  /\ fin.out[i].err # ""
    /\ "bInBlk" \in fin.changed

\* C19: synchronous mode.  Every finishBlock on a non-empty block appends
\* exactly one 0x0904 TLV to the output file: a signature TLV (nRecords, DER
\* signature) if the aggregator call and the serialization succeeded,
\* otherwise a no-signature TLV (nRecords, root imprint, error string); the
\* block is closed (bInBlk cleared) in both cases.
SyncFinishWritesSignature ==
    \A h \in AllLogs : SyncFinish(h) => OneSignatureTLV(g.tree[h].fin)

\* the same for the finishes whose fold of the roots succeeded
SyncFinishWritesSignatureFolded ==
    \A h \in AllLogs :
       (SyncFinish(h) /\ g.tree[h].fin.ret = "OK") => OneSignatureTLV(g.tree[h].fin)

\* a synchronous finish whose signing failed
SyncFinishUnsigned ==
    \E h \in AllLogs : SyncFinish(h) /\ ~g.tree[h].fin.signOk

\* the positions of a file's content that hold a magic header
Magics(content) == { i \in DOMAIN content : content[i].t = "magic" }

\* a file with content starts with its magic and holds it nowhere else
MagicOnce(content, header) ==
    content # << >> => (content[1] = Magic(header) /\ Magics(content) = {1})

\* C20: file magic.  After any sequence of open and close cycles of the same
\* log in asynchronous mode, in any interleaving with the worker, the
\* signature file starts with the magic LOG12SIG and contains it exactly
\* once, and likewise the block-data file with LOG12BLK: the magic is written
\* only by the open that created the file.
FileMagicOnce ==
    ctx.syncMode = "LOGSIG_ASYNCHRONOUS" =>
       \A h \in AllLogs :
          /\ MagicOnce(sigFile[h], "LOG12SIG")
          /\ MagicOnce(blockFile[h], "LOG12BLK")

\* the same for the block-data file alone, which the host closes itself
BlockFileMagicOnce ==
    ctx.syncMode = "LOGSIG_ASYNCHRONOUS" =>
       \A h \in AllLogs : MagicOnce(blockFile[h], "LOG12BLK")

\* a log has been opened a second time and its files hold their magic once
FileMagicReopened ==
    /\ g.opens = 2
    /\ \E h \in AllLogs :
          /\ ksi[h].open
          /\ Magics(sigFile[h]) = {1}
          /\ Magics(blockFile[h]) = {1}

\* the finish recorded for h ran on a block with records, in asynchronous mode
AsyncFinish(h) ==
    /\ ctx.syncMode = "LOGSIG_ASYNCHRONOUS"
    /\ g.tree[h].fin.has
    /\ g.tree[h].fin.nRecords > 0

\* that finish wrote one placeholder (record count, root imprint, no error
\* text) and enqueued one SIGN item with the same root, the record count and
\* the level of twice the record count
PlaceholderAndItem(fin) ==
    /\ Cardinality(SignatureTLVs(fin.out)) = 1
    /\ fin.enq
    /\ fin.item.type = "QITEM_SIGNATURE_REQUEST"
    /\ fin.item.intarg1 = fin.nRecords
    /\ fin.item.intarg2 = sigblkCalcLevel(2 * fin.nRecords)
    /\ \A i \in SignatureTLVs(fin.out) :
          /\ "nosig" \in DOMAIN fin.out[i]
          /\ fin.out[i].count = fin.nRecords
          /\ fin.out[i].nosig # NULL
          /\ fin.out[i].nosig = fin.item.arg
          /\ fin.out[i].err = ""

\* C21: asynchronous finish.  Every finishBlock on a non-empty block in
\* asynchronous mode writes one no-signature placeholder (record count and
\* root imprint, no error text) to the block-data file and enqueues exactly
\* one SIGN item carrying that same root imprint, nRecords and the tree level
\* calcLevel(2*nRecords).
AsyncFinishEnqueues ==
    \A h \in AllLogs : AsyncFinish(h) => PlaceholderAndItem(g.tree[h].fin)

\* the same for the finishes in which neither the fold of the roots nor
\* add_queue_item failed
AsyncFinishEnqueuesUnfailed ==
    \A h \in AllLogs :
       (AsyncFinish(h) /\ g.tree[h].fin.ret = "OK"
          /\ (g.tree[h].fin.called => g.tree[h].fin.enq)) =>
             PlaceholderAndItem(g.tree[h].fin)

\* an asynchronous finish of a non-empty block whose item was enqueued
AsyncFinishEnqueued ==
    \E h \in AllLogs : AsyncFinish(h) /\ g.tree[h].fin.enq

\* the worker pops a CLOSE_FILE, NEW_FILE or QUIT item and handles it
MarkerHandled ==
    /\ worker.pc = "pop"
    /\ signer_queue # << >>
    /\ signer_queue[1].type \in {"QITEM_CLOSE_FILE", "QITEM_NEW_FILE", "QITEM_QUIT"}
    /\ signer_queue' = Tail(signer_queue)

\* the SIGN item it that was enqueued has its TLV, at its place, in the
\* signature file
SignItemWritten(it) ==
    /\ it.id \notin g.dropped
    /\ \E i \in 1..Len(SigTLVs(1)) :
          /\ i <= Len(Kept)
          /\ Kept[i].id = it.id
          /\ SigTLVs(1)[i].t = "0904"
          /\ SigTLVs(1)[i].count = it.intarg1

\* C22: markers stay behind signatures.  The worker handles a CLOSE_FILE,
\* NEW_FILE or QUIT item only when every SIGN item enqueued before it has
\* been written to the signature file.
MarkersBehindSignatures ==
    [][ MarkerHandled =>
          \A i \in 1..Len(g.enq) :
             g.enq[i].id < signer_queue[1].id => SignItemWritten(g.enq[i]) ]_vars

\* the same for the SIGN items the worker has not freed unwritten
MarkersBehindKeptSignatures ==
    [][ MarkerHandled =>
          \A i \in 1..Len(Kept) :
             Kept[i].id < signer_queue[1].id => SignItemWritten(Kept[i]) ]_vars

\* a SIGN item was popped by the ProtectedQueue_popFront of signer_thread
SignItemDropped == g.dropped # {}

\* the status values of a queue item, in the order of enum QITEM_STATUS
StatusRank(st) ==
    CASE st = "QITEM_WAITING" -> 0 [] st = "QITEM_SENT" -> 1 [] st = "QITEM_DONE" -> 2

\* in this step no SIGN item that stays in the queue moves to an earlier status
StatusForward ==
    \A i \in DOMAIN signer_queue, j \in DOMAIN signer_queue' :
       (signer_queue[i].type = "QITEM_SIGNATURE_REQUEST"
          /\ signer_queue'[j].id = signer_queue[i].id) =>
             StatusRank(signer_queue'[j].status) >= StatusRank(signer_queue[i].status)

\* the SIGN items this step removes from the queue
Removed ==
    { i \in DOMAIN signer_queue :
         /\ signer_queue[i].type = "QITEM_SIGNATURE_REQUEST"
         /\ \A j \in DOMAIN signer_queue' : signer_queue'[j].id # signer_queue[i].id }

\* item it is DONE when this step removes it: it was DONE before, or the
\* process_requests_async call that removes it has set it DONE, in its first
\* loop from a handle that was ready or in its second on a refused request
DoneAtRemoval(it) ==
    \/ it.status = "QITEM_DONE"
    \/ it.status = "QITEM_SENT" /\ \E hd \in as.ready : hd.item = it.id
    \/ it.status = "QITEM_WAITING" /\ it.id \in g'.failed

\* the step writes one signature TLV for each of the items in R
OneTLVEach(R) ==
    (worker'.pc # "crashed") =>
       /\ Len(SigTLVs(1)') = Len(SigTLVs(1)) + Cardinality(R)
       /\ \A n \in (Len(SigTLVs(1)) + 1)..Len(SigTLVs(1)') : SigTLVs(1)'[n].t = "0904"

\* C23: the state machine of a queue item.  The status of a SIGN item only
\* moves forward (WAITING, SENT, DONE), an item leaves the queue only when
\* its status is DONE, and the step that removes it writes exactly one
\* signature TLV for it.
ItemStateMachine ==
    [][ /\ StatusForward
        /\ \A i \in Removed : DoneAtRemoval(signer_queue[i])
        /\ OneTLVEach(Removed) ]_vars

\* the same for the removals made by the save loop of process_requests_async
ItemStateMachineSaved ==
    [][ /\ StatusForward
        /\ \A i \in Removed :
              signer_queue[i].id \notin g'.dropped => DoneAtRemoval(signer_queue[i])
        /\ OneTLVEach({i \in Removed : signer_queue[i].id \notin g'.dropped}) ]_vars

\* this step's KSI_AsyncService_addRequest refuses the request of the SIGN
\* item at place i of the queue
RefusedNow(i) ==
    /\ signer_queue[i].type = "QITEM_SIGNATURE_REQUEST"
    /\ signer_queue[i].status = "QITEM_WAITING"
    /\ signer_queue[i].id \in g'.failed \ g.failed

\* C24 as stated: a SIGN item whose request the async service refuses
\* remains WAITING in the queue.
RefusedStaysWaiting ==
    [][ \A i \in DOMAIN signer_queue :
           RefusedNow(i) =>
              \E j \in DOMAIN signer_queue' :
                 /\ signer_queue'[j].id = signer_queue[i].id
                 /\ signer_queue'[j].status = "QITEM_WAITING" ]_vars

\* the n-th SIGN item enqueued has been handed to the async service: it is
\* SENT or DONE in the queue, or has been written
Submitted(n) ==
    /\ n <= Len(g.enq)
    /\ g.enq[n].id \notin g.dropped
    /\ \A j \in DOMAIN signer_queue :
          signer_queue[j].id = g.enq[n].id => signer_queue[j].status # "QITEM_WAITING"

\* C24: backpressure.  A SIGN item whose request the async service refuses
\* is set DONE with the status of the refusal (and written as a no-signature
\* TLV when it reaches the front); the WAITING items behind it are not
\* handed over in that call, remain WAITING, and are handed to the async
\* service in a later call of process_requests_async.
BackpressureHoldsRest ==
    /\ [][ \A i \in DOMAIN signer_queue :
             RefusedNow(i) =>
                /\ \A j \in DOMAIN signer_queue' :
                      signer_queue'[j].id = signer_queue[i].id =>
                         /\ signer_queue'[j].status = "QITEM_DONE"
                         /\ signer_queue'[j].ksi_status = "KSI_ASYNC_REQUEST_CACHE_FULL"
                /\ \A k \in DOMAIN signer_queue :
                      (k > i /\ signer_queue[k].type = "QITEM_SIGNATURE_REQUEST"
                             /\ signer_queue[k].status = "QITEM_WAITING") =>
                         /\ signer_queue[k].id \in g'.held
                         /\ \E j \in DOMAIN signer_queue' :
                               /\ signer_queue'[j].id = signer_queue[k].id
                               /\ signer_queue'[j].status = "QITEM_WAITING" ]_vars
    /\ \A n \in 1..MaxSign :
          (n <= Len(g.enq) /\ g.enq[n].id \in g.held) ~> Submitted(n)

\* C24 witness: an item that was left WAITING behind a refused request has
\* been handed to the async service in a later call
BackpressureWitness ==
    \E n \in 1..Len(g.enq) : g.enq[n].id \in g.held /\ Submitted(n)

\* the number of times the root imprint of the SIGN item id has been freed
FreeCount(id) == Cardinality({ i \in DOMAIN g.freed : g.freed[i].id = id })

InQueue(id) == \E j \in DOMAIN signer_queue : signer_queue[j].id = id

\* C25: root imprint lifetime.  The root imprint of a SIGN item is freed
\* exactly once, namely once the item has left the queue; it is freed only
\* after the item has been popped and its signature TLV written, only under
\* the context lock, and no request or handle of the async service refers
\* to an item whose root has been freed.
RootFreedOnce ==
    Alive =>
       /\ \A n \in 1..Len(g.enq) :
             /\ FreeCount(g.enq[n].id) = IF InQueue(g.enq[n].id) THEN 0 ELSE 1
             /\ FreeCount(g.enq[n].id) = 1 => SignItemWritten(g.enq[n])
       /\ \A i \in DOMAIN g.freed : g.freed[i].lock = "worker"
       /\ \A p \in as.pending : FreeCount(p.item) = 0
       /\ \A hd \in as.ready : FreeCount(hd.item) = 0

\* the same, but for the roots of the SIGN items that ProtectedQueue_popFront
\* in signer_thread has taken, which are never freed
RootFreedAtMostOnce ==
    Alive =>
       /\ \A n \in 1..Len(g.enq) :
             /\ FreeCount(g.enq[n].id) =
                   IF InQueue(g.enq[n].id) \/ g.enq[n].id \in g.dropped THEN 0 ELSE 1
             /\ FreeCount(g.enq[n].id) = 1 => SignItemWritten(g.enq[n])
       /\ \A i \in DOMAIN g.freed : g.freed[i].lock = "worker"
       /\ \A p \in as.pending : FreeCount(p.item) = 0
       /\ \A hd \in as.ready : FreeCount(hd.item) = 0

\* this step computes a level-1 node for log h in sigblkAddLeaf
LeafComputed(h) == g'.tree[h].leaf # g.tree[h].leaf

\* C26: the frame of lastLeaf.  A step in which sigblkAddLeaf computes the
\* level-1 node of a leaf leaves that node in lastLeaf, whatever the carry
\* loop, sigblkFinishKSI and sigblkInitKSI do behind it in the same call;
\* any other step on an open log, a block finish or a block start among
\* them, leaves lastLeaf as it was.
LastLeafFrame ==
    [][ \A h \in AllLogs :
           (ksi[h].open /\ ksi'[h].open) =>
              IF LeafComputed(h)
              THEN /\ ksi'[h].lastLeaf = g'.tree[h].leaf
                   /\ ksi'[h].lastLeaf.lv = 1
              ELSE ksi'[h].lastLeaf = ksi[h].lastLeaf ]_vars

\* C26 witness: a block has been finished and the next one started after a
\* leaf whose carry produced an interim node, and lastLeaf is the leaf's
\* level-1 node
LastLeafFrameWitness ==
    \E h \in AllLogs :
       /\ ksi[h].open
       /\ ksi[h].bInBlk
       /\ ksi[h].nRecords = 0
       /\ g.tree[h].fin.has
       /\ g.tree[h].fin.nRecords > 1
       /\ g.tree[h].leaf # NULL
       /\ g.tree[h].final # g.tree[h].leaf
       /\ ksi[h].lastLeaf = g.tree[h].leaf

\* the occupied slots of a roots array, counted from 0
Occupied(roots) == { j \in 0..(Len(roots) - 1) : roots[j + 1] # NULL }

Highest(S) == CHOOSE m \in S : \A j \in S : j <= m

\* the root over the occupied slots S: the node of the highest slot to the
\* left of the root over the slots below it, at the level above that slot
RECURSIVE RootHigherLeft(_, _)
RootHigherLeft(roots, S) ==
    IF Cardinality(S) = 1 THEN roots[Highest(S) + 1]
    ELSE [ l |-> roots[Highest(S) + 1],
           r |-> RootHigherLeft(roots, S \ {Highest(S)}),
           lv |-> Highest(S) + 2 ]

\* the same with the root over the lower slots to the left
RECURSIVE RootLowerLeft(_, _)
RootLowerLeft(roots, S) ==
    IF Cardinality(S) = 1 THEN roots[Highest(S) + 1]
    ELSE [ l |-> RootLowerLeft(roots, S \ {Highest(S)}),
           r |-> roots[Highest(S) + 1],
           lv |-> Highest(S) + 2 ]

\* C27 as stated: every fold of sigblkFinishKSI hashes the root accumulated
\* from the lower slots, then the next occupied slot, then the level.
FoldLowerThenHigher ==
    g.call.fn = "sigblkFinishKSI" =>
       g.call.root = RootLowerLeft(g.call.roots, Occupied(g.call.roots))

\* C27: the fold of sigblkFinishKSI.  The occupied roots are folded from
\* the lowest slot to the highest into one root; each fold hashes the node
\* of the next occupied slot j, then the root accumulated from the slots
\* below it, then the level j + 2, and empties the slot; there is one fold
\* for each occupied slot but the lowest.
FoldHigherThenLower ==
    g.call.fn = "sigblkFinishKSI" =>
       /\ g.call.root = RootHigherLeft(g.call.roots, Occupied(g.call.roots))
       /\ Len(g.call.nodes) = Cardinality(Occupied(g.call.roots)) - 1
       /\ \A i \in 1..(Len(g.call.nodes) - 1) : g.call.nodes[i].lv < g.call.nodes[i + 1].lv
       /\ Occupied(g.call.after) = {}

\* C27 witness: a block of seven leaves, whose three roots take two folds
FoldWitness ==
    /\ g.call.fn = "sigblkFinishKSI"
    /\ Cardinality(Occupied(g.call.roots)) = 3
    /\ g.call.root = [ l |-> [slot |-> 2],
                       r |-> [l |-> [slot |-> 1], r |-> [slot |-> 0], lv |-> 3],
                       lv |-> 4 ]

\* the latest sigblkAddRecordKSI call on h had a hasher call fail in its
\* sigblkAddLeaf
HashFailedInAdd(h) == g.tree[h].add.has /\ g.tree[h].add.fault # 0

\* C28: a hash failure in sigblkAddLeaf.  A sigblkAddRecordKSI call whose
\* sigblkAddLeaf has a hasher call fail (the mask, the record hash, the
\* level-1 node or a node of the carry loop) returns a non-zero status and
\* sets neither the disabled flag of the context nor that of the file.
HashFailureReturned ==
    \A h \in AllLogs :
       HashFailedInAdd(h) =>
          /\ g.tree[h].add.ret = "RSGTE_HASH_CREATE"
          /\ ~g.tree[h].add.disabled

\* C28 witness: the hasher failed in the carry loop of a record's leaf
HashFailureWitness ==
    \E h \in AllLogs :
       /\ HashFailedInAdd(h)
       /\ g.tree[h].add.fault > 3
       /\ g.tree[h].add.ret # "OK"
       /\ ~ctx.disabled

\* the latest sigblkAddRecordKSI call on h had a write to the block file
\* fail in its sigblkAddLeaf
WriteFailedInAdd(h) == g.tree[h].add.has /\ g.tree[h].add.io # 0

\* C29: an IO failure in sigblkAddLeaf.  A sigblkAddRecordKSI call in which
\* a write of the block header, the record hash or a tree hash fails returns
\* a non-zero status and advances neither nRecords nor roots.
WriteFailureAborts ==
    \A h \in AllLogs :
       WriteFailedInAdd(h) =>
          /\ g.tree[h].add.ret # "OK"
          /\ g.tree[h].add.after.nRecords = g.tree[h].add.before.nRecords
          /\ g.tree[h].add.after.roots = g.tree[h].add.before.roots

\* what the code does instead: the call returns 0, and its TLVs but the
\* one whose write failed are in the block file
WriteFailureIgnored ==
    \A h \in AllLogs :
       WriteFailedInAdd(h) =>
          /\ g.tree[h].add.ret = "OK"
          /\ g.tree[h].add.after.nRecords =
                IF g.tree[h].add.before.nRecords + 1 = g.tree[h].add.before.blockSizeLimit
                THEN 0 ELSE g.tree[h].add.before.nRecords + 1
          /\ g.tree[h].add.after.lastLeaf # g.tree[h].add.before.lastLeaf

\* the 0x0903 TLVs among the TLVs a call has appended
TreeHashTLVs(out) == SelectSeq(out, LAMBDA tlv : tlv.t = "0903")

\* the fold steps the carry loop performs on roots: the occupied slots
\* below the lowest empty one
CarrySteps(roots) ==
    Cardinality({ j \in 0..(Len(roots) - 1) :
                    \A i \in 0..j : roots[i + 1] # NULL })

\* the latest sigblkAddRecordKSI call on h added its leaf with tree hashes kept
LeafAddedWithTreeHashes(h) ==
    /\ g.tree[h].add.has
    /\ g.tree[h].add.ret = "OK"
    /\ g.tree[h].add.io = 0
    /\ g.tree[h].add.before.bKeepTreeHashes

\* C30 as stated: the leaf has as many 0x0903 TLVs as the carry loop made
\* fold steps.
TreeHashPerFold ==
    \A h \in AllLogs :
       LeafAddedWithTreeHashes(h) =>
          Len(TreeHashTLVs(g.tree[h].add.out)) = CarrySteps(g.tree[h].add.before.roots)

\* C30: tree hashes of a leaf.  With bKeepTreeHashes set, sigblkAddLeaf
\* appends one 0x0903 TLV for the level-1 node of the leaf and one for each
\* interim node of the carry loop, in the order they are produced: one more
\* than the fold steps performed.
TreeHashPerNode ==
    \A h \in AllLogs :
       LeafAddedWithTreeHashes(h) =>
          /\ Len(TreeHashTLVs(g.tree[h].add.out)) =
                1 + CarrySteps(g.tree[h].add.before.roots)
          /\ Len(g.tree[h].add.nodes) = Len(TreeHashTLVs(g.tree[h].add.out))
          /\ \A i \in 1..Len(g.tree[h].add.nodes) :
                /\ TreeHashTLVs(g.tree[h].add.out)[i].imprint = g.tree[h].add.nodes[i]
                /\ g.tree[h].add.nodes[i].lv = i

\* C30 witness: a leaf whose carry took two fold steps has three 0x0903 TLVs
TreeHashWitness ==
    \E h \in AllLogs :
       /\ LeafAddedWithTreeHashes(h)
       /\ CarrySteps(g.tree[h].add.before.roots) = 2
       /\ Len(TreeHashTLVs(g.tree[h].add.out)) = 3

\* the Merkle state of a handle: nRecords, roots[], nRoots and lastLeaf
MerkleState(k) ==
    [ nRecords |-> k.nRecords, roots |-> k.roots, nRoots |-> k.nRoots,
      lastLeafId |-> k.lastLeafId, lastLeaf |-> k.lastLeaf ]

\* the latest sigblkAddRecordKSI call on h returned non-zero: its
\* sigblkAddLeaf failed
AddLeafFailed(h) == g.tree[h].add.has /\ g.tree[h].add.ret # "OK"

\* C31: a failed sigblkAddLeaf.  Whenever sigblkAddLeaf returns a non-zero
\* status, nRecords, roots[], nRoots and lastLeaf are as they were before
\* the call.
FailedLeafHasNoEffect ==
    \A h \in AllLogs :
       AddLeafFailed(h) =>
          MerkleState(g.tree[h].add.after) = MerkleState(g.tree[h].add.before)

\* the same for the failures of the hasher calls that come before the carry
\* loop: the mask, the record hash and the level-1 node
FailedBeforeCarryHasNoEffect ==
    \A h \in AllLogs :
       (AddLeafFailed(h) /\ g.tree[h].add.fault \in 1..3) =>
          MerkleState(g.tree[h].add.after) = MerkleState(g.tree[h].add.before)

\* what a failure in the carry loop leaves behind: nRecords and nRoots as
\* before, lastLeaf replaced by the level-1 node of the failed leaf, and the
\* slot whose fold failed emptied together with the slots folded before it
FailedCarryEffect ==
    \A h \in AllLogs :
       (AddLeafFailed(h) /\ g.tree[h].add.fault > 3) =>
          /\ g.tree[h].add.after.nRecords = g.tree[h].add.before.nRecords
          /\ g.tree[h].add.after.nRoots = g.tree[h].add.before.nRoots
          /\ g.tree[h].add.after.lastLeaf = g.tree[h].add.nodes[1]
          /\ g.tree[h].add.after.lastLeaf # g.tree[h].add.before.lastLeaf
          /\ \A j \in 1..(g.tree[h].add.fault - 3) :
                /\ g.tree[h].add.before.roots[j] # NULL
                /\ g.tree[h].add.after.roots[j] = NULL

\* the highest level byte among the hashes of a block's tree
MaxLevel(nodes) ==
    CHOOSE m \in { nodes[i].lv : i \in 1..Len(nodes) } :
       \A i \in 1..Len(nodes) : nodes[i].lv <= m

\* C32: the level handed to the aggregator.  For every block of N >= 1
\* leaves, the level sigblkFinishKSI passes on, sigblkCalcLevel(2 * N), is
\* the level byte of the hash that produced the block's root, which is the
\* highest level byte used in the block's tree; it is 1 when N = 1.
LevelIsRootLevel ==
    g.call.fn = "block" =>
       /\ g.call.nRecords = g.call.n
       /\ g.call.level = sigblkCalcLevel(2 * g.call.n)
       /\ g.call.level = g.call.root.lv
       /\ g.call.root = g.call.nodes[Len(g.call.nodes)]
       /\ g.call.level = MaxLevel(g.call.nodes)
       /\ (g.call.n = 1 => g.call.level = 1)

\* C32 witness: a block of three leaves, whose root comes from the fold of
\* sigblkFinishKSI, has been built and finished with level 3
LevelIsRootLevelWitness ==
    /\ g.call.fn = "block"
    /\ g.call.n = 3
    /\ g.call.root.lv = 3
    /\ g.call.level = 3

(***************************************************************************)
(* The two mutexes, one lock operation at a time.  A thread's position is  *)
(* the function and line of the instruction it is about to execute; the    *)
(* branches that depend on the data (is the block full, has the time limit *)
(* passed, what is at the front of the queue) are open, so every order of  *)
(* lock operations the code can produce is a behaviour.  The queue's       *)
(* operations take the queue's mutex for their duration, as section 4.7    *)
(* of the specification describes the queue ("FIFO with a mutex and        *)
(* condition variable").                                                   *)
(***************************************************************************)
Threads == {"host", "worker"}

Other(t) == IF t = "host" THEN "worker" ELSE "host"

Async == ctx.syncMode = "LOGSIG_ASYNCHRONOUS"

Node(do, next) == [do |-> do, next |-> next]

\* a sigblkCheckTimeOut whose early exits return without the unlock
sigblkCheckTimeOut_done_return == "signer_thread:1635"

\* the label done: of sigblkCheckTimeOut, which its early exits jump to
sigblkCheckTimeOut_done == "sigblkCheckTimeOut:1170"

\* the host thread: rsksiCtxOpenFile, sigblkAddRecordKSI, rsksifileDestruct
\* and rsksiCtxDel.  add_queue_item is the ProtectedQueue_addItem it makes.
HostCode(pc) ==
    CASE pc = "rsksiCtxOpenFile:824" -> Node("lock", {"rsksiCtxOpenFile:828"})
      [] pc = "rsksiCtxOpenFile:828" ->
            Node("create", {"rsksiCtxOpenFile:856"} \cup
                           (IF Async THEN {"ksiOpenSigFile:662"}
                                     ELSE {"rsksiCtxOpenFile:862"}))
      [] pc = "ksiOpenSigFile:662" -> Node("queue", {"rsksiCtxOpenFile:862"})
      [] pc = "rsksiCtxOpenFile:856" -> Node("step", {"rsksiCtxOpenFile:862"})
      [] pc = "rsksiCtxOpenFile:862" -> Node("step", {"rsksiCtxOpenFile:863"})
      [] pc = "rsksiCtxOpenFile:863" -> Node("unlock", {"idle"})
      [] pc = "sigblkAddRecordKSI:1059" -> Node("lock", {"sigblkAddRecordKSI:1061"})
      [] pc = "sigblkAddRecordKSI:1061" ->
            Node("step", {"sigblkAddRecordKSI:1070"} \cup
                         (IF Async THEN {"sigblkAddRecordKSI:1065"} ELSE {}))
      [] pc = "sigblkAddRecordKSI:1065" -> Node("queue", {"sigblkAddRecordKSI:1070"})
      [] pc = "sigblkAddRecordKSI:1070" -> Node("unlock", {"idle"})
      [] pc = "rsksifileDestruct:918" -> Node("lock", {"rsksifileDestruct:922"})
      [] pc = "rsksifileDestruct:922" ->
            Node("step", IF Async THEN {"rsksifileDestruct:924", "rsksifileDestruct:927",
                                        "rsksifileDestruct:931"}
                                  ELSE {"rsksifileDestruct:931"})
      [] pc = "rsksifileDestruct:924" ->
            Node("queue", {"rsksifileDestruct:927", "rsksifileDestruct:931"})
      [] pc = "rsksifileDestruct:927" -> Node("queue", {"rsksifileDestruct:931"})
      [] pc = "rsksifileDestruct:931" -> Node("step", {"rsksifileDestruct:934"})
      [] pc = "rsksifileDestruct:934" -> Node("unlock", {"idle"})
      [] pc = "rsksiCtxDel:944" -> Node("queue", {"rsksiCtxDel:945"})
      [] pc = "rsksiCtxDel:945" -> Node("join", {"deleted"})
      [] OTHER -> Node("none", {})

\* the worker: the loop of signer_thread with sigblkCheckTimeOut and
\* process_requests_async.  ProtectedQueue_waitForItem gives the mutex up
\* while it waits on the condition and takes it again when it is signalled
\* or its time is up.
WorkerCode(pc) ==
    CASE pc = "signer_thread:1630" ->
            Node("queue", {"signer_thread:1630:wait", "sigblkCheckTimeOut:1153"})
      [] pc = "signer_thread:1630:wait" -> Node("queue", {"sigblkCheckTimeOut:1153"})
      [] pc = "sigblkCheckTimeOut:1153" -> Node("lock", {"sigblkCheckTimeOut:1155"})
      [] pc = "sigblkCheckTimeOut:1155" ->
            Node("step", {sigblkCheckTimeOut_done} \cup
                         (IF ctx.ksi = 0 THEN {}
                          ELSE IF Async THEN {"sigblkCheckTimeOut:1166"}
                          ELSE {"sigblkCheckTimeOut:1167"}))
      [] pc = "sigblkCheckTimeOut:1166" -> Node("queue", {"sigblkCheckTimeOut:1167"})
      [] pc = "sigblkCheckTimeOut:1167" -> Node("step", {"sigblkCheckTimeOut:1170"})
      [] pc = "sigblkCheckTimeOut:1170" -> Node("unlock", {"signer_thread:1635"})
      [] pc = "signer_thread:1635" ->
            Node("queue", {"signer_thread:1637", "signer_thread:1643",
                           "signer_thread:1651"})
      [] pc = "signer_thread:1637" -> Node("step", {"process_requests_async:1456"})
      [] pc = "signer_thread:1643" -> Node("step", {"process_requests_async:1456"})
      [] pc = "signer_thread:1644" ->
            Node("step", {"signer_thread:1651", "signer_thread:1676"})
      [] pc = "process_requests_async:1456" ->
            Node("queue", {"process_requests_async:1456", "process_requests_async:1500",
                           "process_requests_async:1534"})
      [] pc = "process_requests_async:1500" ->
            Node("queue", {"process_requests_async:1518", "process_requests_async:1534"})
      [] pc = "process_requests_async:1518" -> Node("queue", {"process_requests_async:1523"})
      [] pc = "process_requests_async:1523" -> Node("lock", {"process_requests_async:1527"})
      [] pc = "process_requests_async:1527" -> Node("unlock", {"process_requests_async:1500"})
      [] pc = "process_requests_async:1534" -> Node("step", {worker.back})
      [] pc = "signer_thread:1651" ->
            Node("queue", {"signer_thread:1630", "signer_thread:1656"})
      [] pc = "signer_thread:1656" ->
            Node("queue", {"signer_thread:1630"} \cup
                          (IF caller.pc = "rsksiCtxDel:945" THEN {"signer_thread:1676"}
                                                            ELSE {}))
      [] pc = "signer_thread:1676" -> Node("exit", {"exited"})
      [] OTHER -> Node("none", {})

PC(t) == IF t = "host" THEN caller.pc ELSE worker.pc

Code(t) == IF t = "host" THEN HostCode(caller.pc) ELSE WorkerCode(worker.pc)

\* the local variable ksi of rsksiCtxOpenFile (held in caller.h) and the
\* argument process_requests_async returns to (held in worker.back)
Goto(t, p) ==
    IF t = "host"
    THEN /\ caller' = [pc |-> p,
                       h  |-> IF caller.pc = "rsksiCtxOpenFile:828" THEN 1
                              ELSE IF caller.pc = "rsksiCtxOpenFile:856" THEN 0
                              ELSE caller.h]
         /\ UNCHANGED worker
    ELSE /\ worker' = [worker EXCEPT
                          !.pc = p,
                          !.back = IF worker.pc = "signer_thread:1637"
                                   THEN "signer_thread:1630"
                                   ELSE IF worker.pc = "signer_thread:1643"
                                   THEN "signer_thread:1644"
                                   ELSE @]
         /\ UNCHANGED caller

\* the host calls one of the entry points
HostCall ==
    /\ caller.pc = "idle"
    /\ \E p \in IF ctx.ksi = 0
                THEN {"rsksiCtxOpenFile:824",
                      IF ctx.thread_started THEN "rsksiCtxDel:944" ELSE "deleted"}
                ELSE {"sigblkAddRecordKSI:1059", "rsksifileDestruct:918"} :
          caller' = [caller EXCEPT !.pc = p]
    /\ UNCHANGED << ctx, ksi, blockFile, sigFile, stateFile, signer_queue, as, worker,
                    module_lock, queue_mutex, now, g >>

pthread_mutex_lock(t) ==
    /\ Code(t).do = "lock"
    /\ module_lock = "free"
    /\ module_lock' = t
    /\ \E p \in Code(t).next : Goto(t, p)
    /\ UNCHANGED << ctx, ksi, blockFile, sigFile, stateFile, signer_queue, as,
                    queue_mutex, now, g >>

\* the unlock, with the assignment to ctx->ksi before it.  A mutex of the
\* default kind is released whoever holds it.
pthread_mutex_unlock(t) ==
    /\ Code(t).do = "unlock"
    /\ module_lock' = "free"
    /\ \E p \in Code(t).next : Goto(t, p)
    /\ UNCHANGED << ctx, ksi, blockFile, sigFile, stateFile, signer_queue, as,
                    queue_mutex, now, g >>

\* a queue operation takes the queue's mutex
ProtectedQueue_enter(t) ==
    /\ Code(t).do = "queue"
    /\ queue_mutex = "free"
    /\ queue_mutex' = t
    /\ UNCHANGED << ctx, ksi, blockFile, sigFile, stateFile, signer_queue, as, worker,
                    caller, module_lock, now, g >>

\* and gives it up when it returns or waits on the condition
ProtectedQueue_leave(t) ==
    /\ Code(t).do = "queue"
    /\ queue_mutex = t
    /\ queue_mutex' = "free"
    /\ \E p \in Code(t).next : Goto(t, p)
    /\ UNCHANGED << ctx, ksi, blockFile, sigFile, stateFile, signer_queue, as,
                    module_lock, now, g >>

\* the code between the lock operations; lines 862 and 931 assign ctx->ksi
ThreadStep(t) ==
    /\ Code(t).do = "step"
    /\ \E p \in Code(t).next : Goto(t, p)
    /\ ctx' = IF PC(t) = "rsksiCtxOpenFile:862" THEN [ctx EXCEPT !.ksi = caller.h]
              ELSE IF PC(t) = "rsksifileDestruct:931" THEN [ctx EXCEPT !.ksi = 0]
              ELSE ctx
    /\ UNCHANGED << ksi, blockFile, sigFile, stateFile, signer_queue, as,
                    module_lock, queue_mutex, now, g >>

\* rsksiCtxOpenFile, line 828: with no thread started, create_signer_thread
\* initialises module_lock, which the caller has locked at line 824, and
\* starts the worker.  Initialising a locked mutex is undefined: the mutex
\* is left either unlocked or as it was.
create_signer_thread ==
    /\ Code("host").do = "create"
    /\ \E p \in Code("host").next :
          caller' = [pc |-> p, h |-> IF p = "rsksiCtxOpenFile:856" THEN 0 ELSE 1]
    /\ IF ctx.thread_started
       THEN UNCHANGED << ctx, worker, module_lock >>
       ELSE /\ ctx' = [ctx EXCEPT !.thread_started = TRUE]
            /\ worker' = [worker EXCEPT !.pc = "signer_thread:1630"]
            /\ module_lock' \in {"free", module_lock}
    /\ UNCHANGED << ksi, blockFile, sigFile, stateFile, signer_queue, as,
                    queue_mutex, now, g >>

\* signer_thread, cleanup: the worker ends
signer_thread_exit ==
    /\ Code("worker").do = "exit"
    /\ worker' = [worker EXCEPT !.pc = "exited"]
    /\ ctx' = [ctx EXCEPT !.thread_started = FALSE]
    /\ UNCHANGED << ksi, blockFile, sigFile, stateFile, signer_queue, as, caller,
                    module_lock, queue_mutex, now, g >>

\* rsksiCtxDel: pthread_join returns when the worker has ended
pthread_join ==
    /\ Code("host").do = "join"
    /\ worker.pc = "exited"
    /\ caller' = [caller EXCEPT !.pc = "deleted"]
    /\ UNCHANGED << ctx, ksi, blockFile, sigFile, stateFile, signer_queue, as, worker,
                    module_lock, queue_mutex, now, g >>

InitLock ==
    InitWith({"LOGSIG_SYNCHRONOUS", "LOGSIG_ASYNCHRONOUS"}, {2}, {0}, {FALSE}, {1},
             {[bytes |-> "A"]}, {})

\* what a thread does once it is in a call and not waiting for a mutex
Proceed(t) ==
    \/ pthread_mutex_unlock(t)
    \/ ProtectedQueue_leave(t)
    \/ ThreadStep(t)
    \/ (t = "host" /\ create_signer_thread)
    \/ (t = "host" /\ pthread_join)
    \/ (t = "worker" /\ signer_thread_exit)

NextLock ==
    \/ HostCall
    \/ \E t \in Threads : pthread_mutex_lock(t)
    \/ \E t \in Threads : pthread_mutex_unlock(t)
    \/ \E t \in Threads : ProtectedQueue_enter(t)
    \/ \E t \in Threads : ProtectedQueue_leave(t)
    \/ \E t \in Threads : ThreadStep(t)
    \/ create_signer_thread
    \/ signer_thread_exit
    \/ pthread_join

\* every thread goes on running, and a mutex that is released again and
\* again is handed to a thread that waits for it
SpecLock ==
    /\ InitLock
    /\ [][NextLock]_vars
    /\ \A t \in Threads : WF_vars(Proceed(t))
    /\ \A t \in Threads : SF_vars(pthread_mutex_lock(t))
    /\ \A t \in Threads : SF_vars(ProtectedQueue_enter(t))

\* t is at a lock operation on ctx->module_lock it has not completed
AtLock(t) == Code(t).do = "lock"

\* t is at a queue operation and does not have the queue's mutex yet
AtQueue(t) == Code(t).do = "queue" /\ queue_mutex # t

\* t cannot go on because the other thread has the mutex t asks for
BlockedOnLock(t) == AtLock(t) /\ module_lock = Other(t)

BlockedOnQueue(t) == AtQueue(t) /\ queue_mutex = Other(t)

\* the queue's mutex is the inner one: whoever has it is in a queue
\* operation, which asks for no other mutex, and no thread is blocked on
\* ctx->module_lock while it has the queue's mutex
QueueMutexInnermost ==
    \A t \in Threads :
       queue_mutex = t => (Code(t).do = "queue" /\ ~BlockedOnLock(t))

\* the two threads are never blocked on each other
NoCircularWait ==
    \A t \in Threads :
       ~((BlockedOnLock(t) \/ BlockedOnQueue(t)) /\
         (BlockedOnLock(Other(t)) \/ BlockedOnQueue(Other(t))))

\* no thread has one of the two mutexes while it is blocked on the other
NoHoldWhileBlocked ==
    \A t \in Threads :
       /\ ~(module_lock = t /\ BlockedOnQueue(t))
       /\ ~(queue_mutex = t /\ BlockedOnLock(t))

\* a thread that asks for one of the mutexes gets it
WaitsEnd ==
    \A t \in Threads :
       /\ AtLock(t) ~> (module_lock = t)
       /\ AtQueue(t) ~> (queue_mutex = t)

\* C33: deadlock freedom.  In every interleaving of the host's calls
\* (open, addRecord, close, context delete) with the worker (timed queue
\* wait, time-limit check, dispatch, flush with its locked free section) a
\* thread that asks for ctx->module_lock or for the queue's mutex gets it,
\* the two threads are never blocked on each other, and no thread is
\* blocked on ctx->module_lock while it has the queue's mutex.  (The other
\* way round does happen: add_queue_item is called with ctx->module_lock
\* held and then waits for the queue's mutex while the other thread is in a
\* queue operation.)
DeadlockFreedom ==
    /\ [](QueueMutexInnermost /\ NoCircularWait)
    /\ WaitsEnd

\* C33 as stated: the same with neither thread ever having one of the two
\* mutexes while it is blocked on the other
DeadlockFreedomHoldingNothing ==
    /\ [](NoHoldWhileBlocked /\ NoCircularWait)
    /\ WaitsEnd

\* C33 witness: the host is in sigblkAddRecordKSI with ctx->module_lock
\* taken and its add_queue_item is blocked on the queue's mutex, which the
\* worker has in ProtectedQueue_count
DeadlockFreedomWitness ==
    /\ module_lock = "host"
    /\ caller.pc = "sigblkAddRecordKSI:1065"
    /\ BlockedOnQueue("host")
    /\ worker.pc = "signer_thread:1635"

\* Asynchronous mode with two logs on one context, which may be open at
\* the same time; blocks of two leaves, no time limit, no failure.
InitTwoLogs ==
    InitWith({"LOGSIG_ASYNCHRONOUS"}, {2}, {0}, {FALSE}, {1, 2}, {[bytes |-> "A"]}, {})

NextTwoLogs == OpenNext({NoConfig}) \/ BlockNext \/ RecordNext \/ LoopNext \/ QueueNext

SpecTwoLogs == InitTwoLogs /\ [][NextTwoLogs]_vars

\* the logs whose block file holds the placeholder sigblkFinishKSI wrote for
\* the block with this root: the log the block belongs to
OwnLogs(root) ==
    { h \in AllLogs :
        \E j \in 1..Len(blockFile[h]) :
           /\ blockFile[h][j].t = "0904"
           /\ "nosig" \in DOMAIN blockFile[h][j]
           /\ blockFile[h][j].nosig = root }

\* every signature TLV in a log's signature file is that of a block of the
\* same log
SignatureInOwnFile ==
    \A h \in AllLogs :
       \A i \in 1..Len(SigTLVs(h)) : OwnLogs(SignedRoot(SigTLVs(h)[i])) = {h}

\* a SIGN item is at the front of the queue only while the worker has a
\* signature file
SignItemHasFile ==
    (signer_queue # << >> /\ signer_queue[1].type = "QITEM_SIGNATURE_REQUEST")
       => worker.ksiFile # NULL

\* C34: signatures and their files.  For any sequence of open, addRecord
\* and close on one context in asynchronous mode, two logs being open at
\* the same time included, every block's signature TLV is written to the
\* signature file opened for the block's own log, and no SIGN item is at
\* the front of the queue while the worker has no open signature file.
SignaturesInOwnFiles == SignatureInOwnFile /\ SignItemHasFile

====
